---- MODULE Spec2Model ----
(***************************************************************************)
(* A model of the Pump19 IRC golem: the command dispatcher with its router *)
(* and rate limiter (command.py), the RSS feed poller (lrrfeed.py) and the *)
(* cron scheduler (schedulrr.py).                                          *)
(*                                                                         *)
(* Time is the event loop's clock, read in whole seconds.  Text is a tuple *)
(* of one-character strings.  Python's None is the empty tuple where a     *)
(* text is expected.                                                       *)
(***************************************************************************)
EXTENDS Integers, Sequences, FiniteSets, TLC

VARIABLES
    \* ---- command.py ----
    prefix,       \* CommandHandler.prefix (one configuration for the process)
    handlers,     \* number of CommandHandler instances constructed
    routes,       \* CommandRouter.routes, the class-level list
    now,          \* loop.time()
    spam_span,    \* wrapper._spam_span, per wrapped function
    spam_last,    \* wrapper._spam_last, per wrapped function
    events,       \* log of the handle_privmsg calls and what became of them
    outbox,       \* lines handed to client.privmsg by command handlers
    \* ---- lrrfeed.py ----
    remote,       \* the latest entry the feed source serves, per feed; 0: requests to it hang
    updater,      \* LRRFeedParser.updater, per feed
    auto,         \* the auto_update task of each feed
    manual,       \* update() calls made on behalf of the latest command
    feedlog,      \* per feed: the store sections of update() counted, and the last one
    published,    \* number of entry changes at the feed source, per feed
    \* ---- schedulrr.py ----
    clock,        \* datetime.now(tz=MoonBaseTime), in seconds
    cron,         \* the croniter cursor (get_current)
    task,         \* ScheduLRR.task: a run task's id, or 0 for None
    runs,         \* every run() task created so far
    warned,       \* number of "Task already active..." warnings
    fired,        \* log of the executions of the scheduled action
    \* ---- protocol.py ----
    channels,     \* Protocol.channels
    msglock,      \* Protocol.msglock: the call that holds it, or 0
    senders,      \* the calls of announce() and privmsg() made so far
    wire,         \* the PRIVMSG lines handed to irc.send, in order
    restart,      \* Protocol.restart
    irc,          \* the state of the bottom client's connection
    disconnects,  \* the CLIENT_DISCONNECT events and what reconnect() did on them
    loop,         \* the event loop: "running" or "stopped"
    quits,        \* the QUIT commands handed to irc.send
    \* ---- dbutils.py ----
    pool,         \* get_pool._pool: 0 for None, or the pool
    pool_lock,    \* get_pool._lock: the caller that holds it, or 0
    getters,      \* the get_pool() calls made so far
    created,      \* the pools aiopg.create_pool has returned so far
    \* ---- twitch.py ----
    mods,         \* the moderators the chat service lists, per stream
    cache,        \* is_moderator.cache
    checks        \* the is_moderator() calls made so far

vars == <<prefix, handlers, routes, now, spam_span, spam_last, events, outbox,
          remote, updater, auto, manual, feedlog, published,
          clock, cron, task, runs, warned, fired,
          channels, msglock, senders, wire,
          restart, irc, disconnects, loop, quits,
          pool, pool_lock, getters, created,
          mods, cache, checks>>

cmdVars   == <<prefix, handlers, routes, now, spam_span, spam_last, events, outbox>>
feedVars  == <<remote, updater, auto, manual, feedlog, published>>
schedVars == <<clock, cron, task, runs, warned, fired>>
protoVars == <<channels, msglock, senders, wire>>
connVars  == <<restart, irc, disconnects, loop, quits>>
poolVars  == <<pool, pool_lock, getters, created>>
modVars   == <<mods, cache, checks>>
libVars   == <<protoVars, connVars, poolVars, modVars>>

----------------------------------------------------------------------------
(* Bounds of the model.                                                    *)

MaxSpan == 3        \* largest Limiter span tried
MaxTicks == 5       \* seconds the loop clock advances in a run
MaxCalls == 3       \* inbound events in a run of the limiter specification
MaxMsgs == 2        \* inbound events in a run of the dispatcher specification
MaxHandlers == 2    \* CommandHandler instances constructed
MaxEntries == 2     \* entries the feed source publishes, per feed
MaxManual == 1      \* latest commands that reach the feed poller
MaxUpdates == 3     \* update() calls that reach the feed's lock
MaxFeedTicks == 2   \* seconds the loop clock advances in a run of the feed poller
Delay == 1          \* LRRFeedParser.delay, the configured PUMP19_RSS_DELAY
Period == 3         \* seconds between two fire times of the crontab
MaxSchedTime == 7   \* the scheduler's clock stops here
MaxStarts == 2      \* start() calls on the scheduler
MaxFires == 2       \* executions of the scheduled action
MaxWait == 2        \* seconds the handler specification lets pass

NoneText == <<>>

Min(S) == CHOOSE x \in S : \A y \in S : x <= y
Max(S) == CHOOSE x \in S : \A y \in S : x >= y

----------------------------------------------------------------------------
(* Regular expressions: the part of Python's re module that the patterns   *)
(* of CMD_REGEX use.  A pattern is a tree; Walk lists, in the order the    *)
(* backtracking matcher tries them, the ways the pattern can match the     *)
(* text from position i: each the position after the match and the named   *)
(* groups that took part, as <<name, from, to>>.                           *)

Lower == {"a","b","c","d","e","f","g","h","i","j","k","l","m",
          "n","o","p","q","r","s","t","u","v","w","x","y","z"}
Upper == {"A","B","C","D","E","F","G","H","I","J","K","L","M",
          "N","O","P","Q","R","S","T","U","V","W","X","Y","Z"}
Digit == {"0","1","2","3","4","5","6","7","8","9"}
\* \w under re.ASCII
WordChars == Lower \cup Upper \cup Digit \cup {"_"}

Node(t, c, name, rs) == [t |-> t, c |-> c, name |-> name, rs |-> rs]
Lit(c)       == Node("lit", c, "", <<>>)
Bol          == Node("bol", "", "", <<>>)
Eol          == Node("eol", "", "", <<>>)
WordCh       == Node("word", "", "", <<>>)
Cat(rs)      == Node("cat", "", "", rs)
Alt(rs)      == Node("alt", "", "", rs)
Opt(r)       == Node("opt", "", "", <<r>>)
Plus(r)      == Node("plus", "", "", <<r>>)
Grp(name, r) == Node("grp", "", name, <<r>>)
Str(s)       == Cat([i \in 1..Len(s) |-> Lit(s[i])])

RECURSIVE Flat(_)
Flat(ss) == IF ss = <<>> THEN <<>> ELSE Head(ss) \o Flat(Tail(ss))

Extend(a, res) ==
    [m \in 1..Len(res) |-> [j |-> res[m].j, caps |-> a.caps \cup res[m].caps]]

RECURSIVE Walk(_, _, _)
RECURSIVE WalkCat(_, _, _, _)
RECURSIVE WalkAlt(_, _, _, _)
RECURSIVE WalkPlus(_, _, _)

Walk(r, s, i) ==
    LET here == <<[j |-> i, caps |-> {}]>>
        step == <<[j |-> i + 1, caps |-> {}]>>
    IN  CASE r.t = "lit"  -> IF i <= Len(s) /\ s[i] = r.c THEN step ELSE <<>>
          [] r.t = "word" -> IF i <= Len(s) /\ s[i] \in WordChars THEN step ELSE <<>>
          [] r.t = "bol"  -> IF i = 1 THEN here ELSE <<>>
          [] r.t = "eol"  -> IF i = Len(s) + 1 \/ (i = Len(s) /\ s[i] = "\n")
                             THEN here ELSE <<>>
          [] r.t = "cat"  -> WalkCat(r.rs, 1, s, here)
          [] r.t = "alt"  -> WalkAlt(r.rs, 1, s, i)
          [] r.t = "opt"  -> Walk(r.rs[1], s, i) \o here
          [] r.t = "plus" -> WalkPlus(r.rs[1], s, i)
          [] r.t = "grp"  ->
                LET res == Walk(r.rs[1], s, i)
                IN  [m \in 1..Len(res) |->
                        [j |-> res[m].j,
                         caps |-> res[m].caps \cup {<<r.name, i, res[m].j>>}]]

WalkCat(rs, k, s, acc) ==
    IF k > Len(rs) THEN acc
    ELSE WalkCat(rs, k + 1, s,
                 Flat([n \in 1..Len(acc) |-> Extend(acc[n], Walk(rs[k], s, acc[n].j))]))

WalkAlt(rs, k, s, i) ==
    IF k > Len(rs) THEN <<>> ELSE Walk(rs[k], s, i) \o WalkAlt(rs, k + 1, s, i)

\* greedy: one more repetition is tried before stopping
WalkPlus(r, s, i) ==
    LET first == Walk(r, s, i)
    IN  Flat([n \in 1..Len(first) |->
                IF first[n].j > i
                THEN Extend(first[n], WalkPlus(r, s, first[n].j)) \o <<first[n]>>
                ELSE <<first[n]>>])

RECURSIVE GroupNames(_)
GroupNames(r) ==
    (IF r.t = "grp" THEN {r.name} ELSE {})
    \cup UNION {GroupNames(r.rs[k]) : k \in 1..Len(r.rs)}

NoMatch == [ok |-> FALSE, caps |-> {}]

\* the anchoring of the two entry points: where a match must end
EndsWhole(s, j) == j = Len(s) + 1

\* regex.fullmatch(string): the first way to match that ends at the end of
\* the text
fullmatch(r, s) ==
    LET res  == Walk(r, s, 1)
        full == {m \in 1..Len(res) : EndsWhole(s, res[m].j)}
    IN  IF full = {} THEN NoMatch
        ELSE [ok |-> TRUE, caps |-> res[Min(full)].caps]

\* match.groupdict(): every named group of the pattern, None for a group
\* that took no part in the match
groupdict(r, s, m) ==
    [g \in GroupNames(r) |->
        IF \E c \in m.caps : c[1] = g
        THEN LET c == CHOOSE c \in m.caps : c[1] = g
             IN  SubSeq(s, c[2], c[3] - 1)
        ELSE NoneText]

----------------------------------------------------------------------------
(* command.py: the patterns, the router, the limiter, the dispatcher.      *)

W_patreon  == <<"p","a","t","r","e","o","n">>
W_latest   == <<"l","a","t","e","s","t">>
W_video    == <<"v","i","d","e","o">>
W_podcast  == <<"p","o","d","c","a","s","t">>
W_broadcast == <<"b","r","o","a","d","c","a","s","t">>
W_highlight == <<"h","i","g","h","l","i","g","h","t">>
W_codefall == <<"c","o","d","e","f","a","l","l">>
W_lrrmc    == <<"l","r","r","m","c">>
W_mumble   == <<"m","u","m","b","l","e">>
W_rdio     == <<"r","d","i","o">>
W_last     == <<"l","a","s","t">>
W_fm       == <<"f","m">>
W_song     == <<"s","o","n","g">>
W_help     == <<"h","e","l","p">>
W_seabats  == <<"s", "e", "a", "b", "a", "t", "s">>
W_ihorner  == <<"i", "h", "o", "r", "n", "e", "r">>
W_bob      == <<"b","o","b">>
SP         == <<" ">>

\* the keys of CMD_REGEX, in the order the mapping lists them
CMD_KEYS == <<"patreon", "latest", "codefall", "lrrmc", "mumble",
              "rdio", "lastfm", "song", "help">>

CMD_REGEX(key) ==
    CASE key = "patreon"  -> Cat(<<Bol, Str(W_patreon), Eol>>)
      [] key = "latest"   ->
            Cat(<<Bol, Str(W_latest),
                  Opt(Cat(<<Str(SP),
                            Grp("feed", Alt(<<Str(W_video), Str(W_podcast),
                                              Str(W_broadcast), Str(W_highlight)>>))>>)),
                  Eol>>)
      [] key = "codefall" -> Cat(<<Bol, Str(W_codefall), Eol>>)
      [] key = "lrrmc"    -> Cat(<<Bol, Str(W_lrrmc), Eol>>)
      [] key = "mumble"   -> Cat(<<Bol, Str(W_mumble), Eol>>)
      [] key = "rdio"     ->
            Cat(<<Bol, Str(W_rdio), Str(SP), Grp("user", Plus(WordCh)), Eol>>)
      [] key = "lastfm"   ->
            Cat(<<Bol, Str(W_last), Lit("."), Str(W_fm), Str(SP),
                  Grp("user", Plus(WordCh)), Eol>>)
      [] key = "song"     -> Cat(<<Bol, Str(W_song), Eol>>)
      [] key = "help"     -> Cat(<<Bol, Str(W_help), Eol>>)

\* client.nickname, and who talks to the golem where
Nickname == "pump19"
Nicks    == {"alice"}
Targets  == {"#lrr", Nickname}

\* configurations of PUMP19_CMD_PREFIX
Prefixes == {<<"&">>, <<"&", "&">>}

\* inbound lines
M_help         == <<"&">> \o W_help
M_helpme       == <<"&">> \o W_help \o <<"m", "e">>
M_latest       == <<"&">> \o W_latest
M_latest_video == <<"&">> \o W_latest \o SP \o W_video
M_latest_vids  == <<"&">> \o W_latest \o SP \o W_video \o <<"s">>
M_rdio_bob     == <<"&">> \o W_rdio \o SP \o W_bob
M_lastfm_bob   == <<"&">> \o W_last \o <<".">> \o W_fm \o SP \o W_bob
M_lastxfm_bob  == <<"&">> \o W_last \o <<"x">> \o W_fm \o SP \o W_bob
M_bare_help    == W_help
M_bang_help    == <<"!">> \o W_help
M_amp          == <<"&">>
M_ampamp_help  == <<"&", "&">> \o W_help
M_song         == <<"&">> \o W_song
M_lrrmc        == <<"&">> \o W_lrrmc
M_mumble       == <<"&">> \o W_mumble

Messages == {M_help, M_helpme, M_latest, M_latest_video, M_latest_vids,
             M_rdio_bob, M_lastfm_bob, M_lastxfm_bob, M_bare_help,
             M_bang_help, M_amp, M_ampamp_help}

\* the lines the limiter specification sends: two guarded commands
LimiterMessages == {M_help, M_latest}

\* the lines the handler specification sends: a command that calls other
\* guarded commands, and those commands
HandlerMessages == {M_song, M_rdio_bob, M_lastfm_bob}
\* the lines the status specification sends
StatusMessages == {M_lrrmc, M_mumble}

\* what message[1:] can hand to the router
Commands == {SubSeq(m, 2, Len(m)) : m \in Messages \cup HandlerMessages \cup StatusMessages}

\* the handle_command_<key> methods CommandHandler defines
Handlers == {"patreon", "latest", "codefall", "lrrmc", "mumble",
             "rdio", "lastfm", "song", "help"}

NoCallback == [inst |-> 0, name |-> "None"]
\* a router that falls back to the help command
FallbackRoute == [callback |-> [inst |-> 1, name |-> "help"], kwargs |-> <<>>]
NoRoute == [callback |-> NoCallback, kwargs |-> <<>>]

\* a router that puts every new route in front of the others
add_route_front(rs, regex, callback) ==
    <<[regex |-> regex, callback |-> callback]>> \o rs

\* CommandRouter.add_route
add_route(rs, regex, callback) == Append(rs, [regex |-> regex, callback |-> callback])

\* setup_routing of the CommandHandler instance inst: one route per key of
\* CMD_REGEX that has a handler method, appended to the shared list
RECURSIVE setup_from(_, _, _)
setup_from(rs, inst, k) ==
    IF k > Len(CMD_KEYS) THEN rs
    ELSE setup_from(IF CMD_KEYS[k] \in Handlers
                    THEN add_route(rs, CMD_KEYS[k], [inst |-> inst, name |-> CMD_KEYS[k]])
                    ELSE rs,
                    inst, k + 1)

setup_routing(rs, inst) == setup_from(rs, inst, 1)

\* every compiled pattern applied to every text, worked out once:
\* regex.fullmatch(string) and, on a match, match.groupdict()
MATCHES ==
    [key \in Handlers |->
        [string \in Commands |->
            LET m == fullmatch(CMD_REGEX(key), string)
            IN  [ok |-> m.ok,
                 groupdict |-> IF m.ok THEN groupdict(CMD_REGEX(key), string, m)
                               ELSE <<>>]]]

\* CommandRouter.get_route: the loop over the routes, from route k on
RECURSIVE route_from(_, _, _)
route_from(rs, string, k) ==
    IF k > Len(rs) THEN NoRoute
    ELSE LET match == MATCHES[rs[k].regex][string]
         IN  IF ~match.ok THEN route_from(rs, string, k + 1)
             ELSE [callback |-> rs[k].callback, kwargs |-> match.groupdict]

\* a router in which the last matching route wins
RECURSIVE route_back(_, _, _)
route_back(rs, string, k) ==
    IF k < 1 THEN NoRoute
    ELSE LET match == MATCHES[rs[k].regex][string]
         IN  IF ~match.ok THEN route_back(rs, string, k - 1)
             ELSE [callback |-> rs[k].callback, kwargs |-> match.groupdict]

get_route_last(rs, string) == route_back(rs, string, Len(rs))

get_route(rs, string) == route_from(rs, string, 1)

\* Limiter.__init__: span=15
DefaultSpan == 15
\* spans of scaled-down limiters
Spans == 2..MaxSpan

startswith(s, pre) == Len(s) >= Len(pre) /\ SubSeq(s, 1, Len(pre)) = pre

\* a dispatcher that tests the length of the line but not its prefix
IsCommandAnyPrefix(message) == ~(Len(message) < 2)

\* handle_privmsg's first test, negated: the line is taken as a command
IsCommand(message) == ~(~startswith(message, prefix) \/ Len(message) < 2)

\* a gate that opens at exactly the span
PassesAtSpan(h) == (now - spam_last[h]) >= spam_span[h]
\* a wrapper that has not written the timestamp when it awaits the body
StampLate(h) == spam_last

\* a wrapper that writes the timestamp when it suppresses a call, too
SuppressedStamps(h) == [spam_last EXCEPT ![h] = now]
\* a dispatcher that always answers where the line was sent
reply_target_same(nick, target) == target

\* Limiter wrapper: the gate, the timestamp a passing call leaves, and the
\* timestamp a suppressed call leaves (the else branch only logs)
Passes(h) == (now - spam_last[h]) > spam_span[h]
Stamp(h)  == [spam_last EXCEPT ![h] = now]
Suppressed(h) == spam_last

\* handle_privmsg: a query is answered to the nick that sent it
reply_target(nick, target) == IF target = Nickname THEN nick ELSE target

\* a call of a wrapper; parent is 0 for a call made by handle_privmsg and
\* the calling event for a call made by another handler's body
Event(nick, target, message, outcome, route, to) ==
    [nick |-> nick, target |-> target, message |-> message,
     at |-> now, outcome |-> outcome,
     callback |-> route.callback, kwargs |-> route.kwargs, to |-> to,
     parent |-> 0]

\* CommandHandler.handle_privmsg, run up to the first suspension: the prefix
\* test, the routing, the limiter's gate.  Every instance has the same
\* prefix and reads the one class-level router, so the instance whose
\* method the client calls makes no difference.
handle_privmsg(nick, target, message) ==
    LET cmd == SubSeq(message, 2, Len(message))
        to  == reply_target(nick, target)
        r   == get_route(routes, cmd)
        h   == r.callback.name
    IN  /\ IF ~IsCommand(message)
           THEN /\ events' = Append(events,
                        Event(nick, target, message, "ignored", NoRoute, target))
                /\ UNCHANGED spam_last
           ELSE IF r.callback = NoCallback
           THEN /\ events' = Append(events,
                        Event(nick, target, message, "unmatched", NoRoute, to))
                /\ UNCHANGED spam_last
           ELSE IF Passes(h)
           THEN /\ spam_last' = Stamp(h)
                /\ events' = Append(events,
                        Event(nick, target, message, "running", r, to))
           ELSE /\ events' = Append(events,
                        Event(nick, target, message, "suppressed", r, to))
                /\ spam_last' = Suppressed(h)
        /\ UNCHANGED <<prefix, handlers, routes, now, spam_span, outbox>>

\* the handlers that query a server's status under asyncio.wait_for
StatusHandlers == {"lrrmc", "mumble"}
\* asyncio.wait_for(status_coro, 2.0)
STATUS_TIMEOUT == 2
\* a handler that reports every answer as a status
StatusTextOnline(status) == "Online"
\* the status the message reports: "if not status" sends Unknown
StatusText(status) == IF status = "None" THEN "Unknown" ELSE "Online"

\* the wrapped body resumes and sends its reply through client.privmsg
BodyReply(e) ==
    /\ e \in 1..Len(events)
    /\ events[e].outcome = "running"
    /\ events[e].callback.name \notin StatusHandlers
    /\ events' = [events EXCEPT ![e].outcome = "replied"]
    /\ outbox' = Append(outbox, [target |-> events[e].to, ev |-> e, text |-> "reply"])
    /\ UNCHANGED <<prefix, handlers, routes, now, spam_span, spam_last>>

\* handle_command_song, streamer Adam, Cameron, James or Kathleen (rdio) or
\* Ian (lastfm): the body calls self.handle_command_rdio or
\* self.handle_command_lastfm, which are the rate-limited wrappers; the
\* call passes that wrapper's gate and stamps it, or is suppressed
SongDelegate(e, h) ==
    /\ e \in 1..Len(events)
    /\ events[e].outcome = "running"
    /\ events[e].callback.name = "song"
    /\ h \in {"rdio", "lastfm"}
    /\ LET user  == IF h = "rdio" THEN W_seabats ELSE W_ihorner
           inner == [callback |-> [inst |-> events[e].callback.inst, name |-> h],
                     kwargs |-> [g \in {"user"} |-> user]]
           call(outcome) ==
               [Event(events[e].nick, events[e].target, events[e].message,
                      outcome, inner, events[e].to) EXCEPT !.parent = e]
       IN  IF Passes(h)
           THEN /\ spam_last' = Stamp(h)
                /\ events' = Append([events EXCEPT ![e].outcome = "delegated"],
                                    call("running"))
           ELSE /\ spam_last' = Suppressed(h)
                /\ events' = Append([events EXCEPT ![e].outcome = "delegated"],
                                    call("suppressed"))
    /\ UNCHANGED <<prefix, handlers, routes, now, spam_span, outbox>>

\* handle_command_lrrmc, handle_command_mumble: get_status answers within
\* the timeout, with no status (None) or with one
StatusAnswered(e, status) ==
    /\ e \in 1..Len(events)
    /\ events[e].outcome = "running"
    /\ events[e].callback.name \in StatusHandlers
    /\ status \in {"None", "Online"}
    /\ now < events[e].at + STATUS_TIMEOUT
    /\ events' = [events EXCEPT
            ![e].outcome = IF status = "None" THEN "nostatus" ELSE "replied"]
    /\ outbox' = Append(outbox,
            [target |-> events[e].to, ev |-> e, text |-> StatusText(status)])
    /\ UNCHANGED <<prefix, handlers, routes, now, spam_span, spam_last>>

\* wait_for's timeout expires: asyncio.TimeoutError, status = None
StatusExpired(e) ==
    /\ e \in 1..Len(events)
    /\ events[e].outcome = "running"
    /\ events[e].callback.name \in StatusHandlers
    /\ now >= events[e].at + STATUS_TIMEOUT
    /\ events' = [events EXCEPT ![e].outcome = "expired"]
    /\ outbox' = Append(outbox,
            [target |-> events[e].to, ev |-> e, text |-> StatusText("None")])
    /\ UNCHANGED <<prefix, handlers, routes, now, spam_span, spam_last>>

\* the handlers that await a collaborator (a web service, the feed poller,
\* the database, a game server) before they reply; help only replies
Collaborating == Handlers \ {"help"}

\* the wrapped body resumes and a collaborator's exception leaves it
BodyRaise(e) ==
    /\ e \in 1..Len(events)
    /\ events[e].outcome = "running"
    /\ events[e].callback.name \in Collaborating
    /\ events' = [events EXCEPT ![e].outcome = "raised"]
    /\ UNCHANGED <<prefix, handlers, routes, now, spam_span, spam_last, outbox>>

\* CommandHandler.__init__ of one more instance
NewCommandHandler ==
    /\ handlers < MaxHandlers
    /\ handlers' = handlers + 1
    /\ routes' = setup_routing(routes, handlers + 1)
    /\ UNCHANGED <<prefix, now, spam_span, spam_last, events, outbox>>

\* a second passes on the loop's clock
Tick ==
    /\ now < MaxSpan + 1 + MaxTicks
    /\ now' = now + 1
    /\ UNCHANGED <<prefix, handlers, routes, spam_span, spam_last, events, outbox>>

InitCmd ==
    /\ handlers = 1
    /\ routes = setup_routing(<<>>, 1)
    /\ spam_last = [h \in Handlers |-> 0]
    /\ events = <<>>
    /\ outbox = <<>>

----------------------------------------------------------------------------
(* lrrfeed.py: the feed poller.                                            *)
(*                                                                         *)
(* An entry is the number of its url, 0 is None.  A task that holds or     *)
(* awaits a feed's lock is the auto_update task of the feed (AutoId) or    *)
(* the m-th latest command (m); 0 is nobody.                               *)

RSS_FEEDS == {"video", "podcast"}
AutoId == 0 - 1
Manuals == 1..MaxManual

\* the auto_update task start() creates: gen counts the start() calls that
\* created a task for the feed, old the tasks of earlier start() calls that
\* have been cancelled and have not ended yet
NewTask(gen, old) ==
    [pc |-> "loop", cancel |-> FALSE, wake |-> 0, new |-> 0, gen |-> gen, old |-> old]

\* a task that has not ended
Alive(t) == t.pc \notin {"none", "dead", "cancelled"}

\* update() and announce(): "feed not in self.updater or feed not in RSS_FEEDS"
Unknown(f) == IF f \notin RSS_FEEDS THEN TRUE ELSE ~updater[f].running

\* a lock that every task finds free
LockIgnored(f) == TRUE

\* asyncio.Lock: acquire() returns at once when the lock is not held
LockFree(f) == updater[f].lock = 0

Acquire(u, f, who) == [u EXCEPT ![f].lock = who]
\* a with block that keeps the lock when it is left
Kept(u, f)         == u
Release(u, f)      == [u EXCEPT ![f].lock = 0]

\* update(), lines 112-113: remember the latest entry and the time
StoreEntry(u, f, new) == [u EXCEPT ![f].latest = new, ![f].last = now]

\* an update that announces whenever the url differs from the stored one,
\* a missing one included
AnnouncesAnyChange(old, new) == old # new

\* update(), lines 115-122: a first entry is not announced, a changed url is
Announces(old, new) == old # 0 /\ old # new

\* update() calls that have reached the lock and not yet stored
InFlight ==
    Cardinality({f \in RSS_FEEDS : auto[f].pc \in {"lock", "fetch", "store"}})
    + Cardinality({m \in Manuals : manual[m].pc \in {"lock", "fetch", "store"}})

Stores == feedlog["video"].stores + feedlog["podcast"].stores

MayUpdate == Stores + InFlight < MaxUpdates

\* the log after task who has stored entry new over entry old of feed f
Logged(f, who, old, new) ==
    [feedlog EXCEPT ![f] =
        [stores |-> @.stores + 1,
         announces |-> @.announces + (IF Announces(old, new) THEN 1 ELSE 0),
         by |-> who, old |-> old, new |-> new, at |-> now,
         announced |-> IF Announces(old, new) THEN 1 ELSE 0]]

\* the feed source publishes a new entry
Publish(f) ==
    /\ remote[f] # 0
    /\ remote[f] < MaxEntries
    /\ remote' = [remote EXCEPT ![f] = @ + 1]
    /\ published' = [published EXCEPT ![f] = @ + 1]
    /\ UNCHANGED <<now, updater, auto, manual, feedlog>>

FeedTick ==
    /\ now < Delay + MaxFeedTicks
    /\ now' = now + 1
    /\ UNCHANGED <<remote, updater, auto, manual, feedlog, published>>

\* auto_update, from the top of the loop to the first suspension: the nap,
\* or update() up to the lock or, the lock being free, up to the request
AutoLoop(f) ==
    /\ auto[f].pc = "loop" /\ ~auto[f].cancel
    /\ LET nxt == updater[f].last + Delay
       IN  IF nxt > now
           THEN /\ auto' = [auto EXCEPT ![f].pc = "sleep", ![f].wake = nxt + 1]
                /\ UNCHANGED updater
           ELSE /\ MayUpdate
                /\ IF LockFree(f)
                   THEN /\ updater' = Acquire(updater, f, AutoId)
                        /\ auto' = [auto EXCEPT ![f].pc = "fetch"]
                   ELSE /\ auto' = [auto EXCEPT ![f].pc = "lock"]
                        /\ UNCHANGED updater
    /\ UNCHANGED <<now, remote, manual, feedlog, published>>

\* asyncio.sleep(naptime) is over
AutoWake(f) ==
    /\ auto[f].pc = "sleep" /\ ~auto[f].cancel
    /\ now >= auto[f].wake
    /\ auto' = [auto EXCEPT ![f].pc = "loop", ![f].wake = 0]
    /\ UNCHANGED <<now, remote, updater, manual, feedlog, published>>

\* the lock is handed to the waiting auto_update task
AutoLocked(f) ==
    /\ auto[f].pc = "lock" /\ ~auto[f].cancel
    /\ LockFree(f)
    /\ updater' = Acquire(updater, f, AutoId)
    /\ auto' = [auto EXCEPT ![f].pc = "fetch"]
    /\ UNCHANGED <<now, remote, manual, feedlog, published>>

\* get_latest: the source answers with its latest entry
AutoFetched(f) ==
    /\ auto[f].pc = "fetch" /\ ~auto[f].cancel
    /\ remote[f] # 0
    /\ auto' = [auto EXCEPT ![f].pc = "store", ![f].new = remote[f]]
    /\ UNCHANGED <<now, remote, updater, manual, feedlog, published>>

\* get_latest raises (the request fails, the body does not parse, the feed
\* has no entries): the with block releases the lock, update() raises, and
\* auto_update, which handles CancelledError only, ends
AutoFetchFailed(f) ==
    /\ auto[f].pc = "fetch" /\ ~auto[f].cancel
    /\ remote[f] # 0
    /\ updater' = Release(updater, f)
    /\ auto' = [auto EXCEPT ![f].pc = "dead"]
    /\ UNCHANGED <<now, remote, manual, feedlog, published>>

\* update() resumes with the entry: store, compare, announce or return
AutoStore(f) ==
    /\ auto[f].pc = "store" /\ ~auto[f].cancel
    /\ LET old == updater[f].latest
           new == auto[f].new
       IN  /\ feedlog' = Logged(f, AutoId, old, new)
           /\ IF Announces(old, new)
              THEN /\ updater' = StoreEntry(updater, f, new)
                   /\ auto' = [auto EXCEPT ![f].pc = "announce", ![f].new = 0]
              ELSE /\ updater' = Release(StoreEntry(updater, f, new), f)
                   /\ auto' = [auto EXCEPT ![f].pc = "loop", ![f].new = 0]
    /\ UNCHANGED <<now, remote, manual, published>>

\* client.announce returns: update() leaves the with block
AutoAnnounced(f) ==
    /\ auto[f].pc = "announce" /\ ~auto[f].cancel
    /\ updater' = Release(updater, f)
    /\ auto' = [auto EXCEPT ![f].pc = "loop"]
    /\ UNCHANGED <<now, remote, manual, feedlog, published>>

\* CancelledError reaches the task where it is suspended
AutoCancelled(f) ==
    /\ auto[f].cancel
    /\ Alive(auto[f])
    /\ updater' = IF updater[f].lock = AutoId THEN Release(updater, f) ELSE updater
    /\ auto' = [auto EXCEPT ![f].pc = "cancelled", ![f].wake = 0, ![f].new = 0]
    /\ UNCHANGED <<now, remote, manual, feedlog, published>>

\* handle_command_latest for an RSS feed, once it has passed the limiter:
\* update(feed) up to the lock or the request; for a feed that is not
\* running update() and announce() both return at once
ManualUpdate(m, f) ==
    /\ manual[m].pc = "idle"
    /\ \A k \in Manuals : k < m => manual[k].pc # "idle"
    /\ IF Unknown(f)
       THEN /\ manual' = [manual EXCEPT ![m].pc = "done", ![m].feed = f]
            /\ UNCHANGED updater
       ELSE /\ MayUpdate
            /\ IF LockFree(f)
               THEN /\ updater' = Acquire(updater, f, m)
                    /\ manual' = [manual EXCEPT ![m].pc = "fetch", ![m].feed = f]
               ELSE /\ manual' = [manual EXCEPT ![m].pc = "lock", ![m].feed = f]
                    /\ UNCHANGED updater
    /\ UNCHANGED <<now, remote, auto, feedlog, published>>

ManualLocked(m) ==
    /\ manual[m].pc = "lock"
    /\ LockFree(manual[m].feed)
    /\ updater' = Acquire(updater, manual[m].feed, m)
    /\ manual' = [manual EXCEPT ![m].pc = "fetch"]
    /\ UNCHANGED <<now, remote, auto, feedlog, published>>

ManualFetched(m) ==
    /\ manual[m].pc = "fetch"
    /\ remote[manual[m].feed] # 0
    /\ manual' = [manual EXCEPT ![m].pc = "store", ![m].new = remote[manual[m].feed]]
    /\ UNCHANGED <<now, remote, updater, auto, feedlog, published>>

\* get_latest raises: the lock is released and the exception leaves
\* update() and handle_command_latest
ManualFetchFailed(m) ==
    /\ manual[m].pc = "fetch"
    /\ remote[manual[m].feed] # 0
    /\ updater' = Release(updater, manual[m].feed)
    /\ manual' = [manual EXCEPT ![m].pc = "raised"]
    /\ UNCHANGED <<now, remote, auto, feedlog, published>>

\* announce(feed, target=target) of handle_command_latest, up to privmsg
ManualReplyPc(u, f) == IF ~u[f].running \/ u[f].latest = 0 THEN "done" ELSE "reply"

\* update() resumes with the entry; self.updater[feed] raises KeyError when
\* stop() has removed the feed in the meantime
ManualStore(m) ==
    /\ manual[m].pc = "store"
    /\ LET f   == manual[m].feed
           old == updater[f].latest
           new == manual[m].new
       IN  IF ~updater[f].running
           THEN /\ updater' = Release(updater, f)
                /\ manual' = [manual EXCEPT ![m].pc = "raised", ![m].new = 0]
                /\ UNCHANGED feedlog
           ELSE /\ feedlog' = Logged(f, m, old, new)
                /\ IF Announces(old, new)
                   THEN /\ updater' = StoreEntry(updater, f, new)
                        /\ manual' = [manual EXCEPT ![m].pc = "announce", ![m].new = 0]
                   ELSE /\ updater' = Release(StoreEntry(updater, f, new), f)
                        /\ manual' = [manual EXCEPT
                                ![m].pc = ManualReplyPc(StoreEntry(updater, f, new), f),
                                ![m].new = 0]
    /\ UNCHANGED <<now, remote, auto, published>>

\* client.announce returns: update() releases the lock and returns, and
\* handle_command_latest goes on to announce(feed, target=target)
ManualAnnounced(m) ==
    /\ manual[m].pc = "announce"
    /\ updater' = Release(updater, manual[m].feed)
    /\ manual' = [manual EXCEPT ![m].pc = ManualReplyPc(updater, manual[m].feed)]
    /\ UNCHANGED <<now, remote, auto, feedlog, published>>

\* client.privmsg returns
ManualReplied(m) ==
    /\ manual[m].pc = "reply"
    /\ manual' = [manual EXCEPT ![m].pc = "done"]
    /\ UNCHANGED <<now, remote, updater, auto, feedlog, published>>

\* LRRFeedParser.stop(), called on SIGTERM: every running feed's task is
\* cancelled and the feed removed from updater
FeedStop ==
    /\ \E f \in RSS_FEEDS : updater[f].running
    /\ auto' = [f \in RSS_FEEDS |->
                    IF updater[f].running THEN [auto[f] EXCEPT !.cancel = TRUE]
                    ELSE auto[f]]
    /\ updater' = [f \in RSS_FEEDS |-> [updater[f] EXCEPT !.running = FALSE]]
    /\ UNCHANGED <<now, remote, manual, feedlog, published>>

\* a start() that creates a task for every feed, running or not
start_all(f) == TRUE

\* start(): "if feed not in self.updater"
start_creates(f) == ~updater[f].running

\* LRRFeedParser.start(): every feed that is not in updater gets a new
\* entry (a new lock, no entry, last = 0.0) and a new auto_update task; the
\* task stop() cancelled may not have ended yet
FeedStart ==
    /\ \E f \in RSS_FEEDS : start_creates(f)
    /\ \A f \in RSS_FEEDS : auto[f].gen < MaxStarts
    /\ updater' = [f \in RSS_FEEDS |->
                    IF start_creates(f)
                    THEN [running |-> TRUE, lock |-> 0, last |-> 0, latest |-> 0]
                    ELSE updater[f]]
    /\ auto' = [f \in RSS_FEEDS |->
                    IF start_creates(f)
                    THEN NewTask(auto[f].gen + 1,
                                 auto[f].old + (IF Alive(auto[f]) THEN 1 ELSE 0))
                    ELSE auto[f]]
    /\ UNCHANGED <<now, remote, manual, feedlog, published>>

\* CancelledError reaches a task of an earlier start()
OldCancelled(f) ==
    /\ auto[f].old > 0
    /\ auto' = [auto EXCEPT ![f].old = @ - 1]
    /\ UNCHANGED <<now, remote, updater, manual, feedlog, published>>

\* the poller as __init__ leaves it: nothing in updater, no task.  One of
\* the two sources answers requests during the run.
InitFeedNew ==
    /\ \E live \in RSS_FEEDS : remote = [f \in RSS_FEEDS |-> IF f = live THEN 1 ELSE 0]
    /\ published = [f \in RSS_FEEDS |-> 0]
    /\ updater = [f \in RSS_FEEDS |->
                    [running |-> FALSE, lock |-> 0, last |-> 0, latest |-> 0]]
    /\ auto = [f \in RSS_FEEDS |-> [NewTask(0, 0) EXCEPT !.pc = "none"]]
    /\ manual = [m \in Manuals |-> [pc |-> "idle", feed |-> "video", new |-> 0]]
    /\ feedlog = [f \in RSS_FEEDS |->
                    [stores |-> 0, announces |-> 0, by |-> 0, old |-> 0, new |-> 0,
                     at |-> 0, announced |-> 0]]

\* the poller as main() leaves it: LRRFeedParser.start() has run.  One of
\* the two sources answers requests during the run; requests to the other
\* stay pending (get_latest sets no timeout).
InitFeed ==
    /\ \E live \in RSS_FEEDS : remote = [f \in RSS_FEEDS |-> IF f = live THEN 1 ELSE 0]
    /\ published = [f \in RSS_FEEDS |-> 0]
    /\ updater = [f \in RSS_FEEDS |->
                    [running |-> TRUE, lock |-> 0, last |-> 0, latest |-> 0]]
    /\ auto = [f \in RSS_FEEDS |-> NewTask(1, 0)]
    /\ manual = [m \in Manuals |-> [pc |-> "idle", feed |-> "video", new |-> 0]]
    /\ feedlog = [f \in RSS_FEEDS |->
                    [stores |-> 0, announces |-> 0, by |-> 0, old |-> 0, new |-> 0,
                     at |-> 0, announced |-> 0]]

----------------------------------------------------------------------------
(* schedulrr.py: the scheduler.  The crontab fires at the multiples of     *)
(* Period; times are seconds in the reference timezone.                    *)

\* EPS_DELAY = timedelta(seconds=1), MAX_DELAY = timedelta(hours=1)
EPS_DELAY == 1
MAX_DELAY == 3600

\* croniter.get_next: the first fire time after the cursor
get_next(c) == ((c \div Period) + 1) * Period

\* a run() task as create_task leaves it; started is the clock reading
\* of the start() that created it
NewRun == [pc |-> "loop", wake |-> 0, cancel |-> FALSE, started |-> clock]

\* ScheduLRR.start: the warning does not end the method
start ==
    /\ warned' = IF task # 0 THEN warned + 1 ELSE warned
    /\ cron' = get_next(cron)
    /\ runs' = Append(runs, NewRun)
    /\ task' = Len(runs) + 1

Start ==
    /\ Len(runs) < MaxStarts
    /\ start
    /\ UNCHANGED <<clock, fired>>

\* ScheduLRR.stop
Stop ==
    /\ IF task = 0
       THEN UNCHANGED <<task, runs>>
       ELSE /\ runs' = [runs EXCEPT ![task].cancel = TRUE]
            /\ task' = 0
    /\ UNCHANGED <<clock, cron, warned, fired>>

\* run() has no handler around "await self.coro()": the exception ends it
action_raised(r) ==
    /\ runs' = [runs EXCEPT ![r].pc = "dead"]
    /\ UNCHANGED cron

\* run(), from the top of the loop to the next suspension: the action is
\* awaited when the cursor is at most EPS_DELAY ahead, else the task sleeps
RunLoop(r) ==
    /\ r \in 1..Len(runs)
    /\ runs[r].pc = "loop" /\ ~runs[r].cancel
    /\ LET nxt  == cron
           diff == nxt - clock
       IN  IF diff <= EPS_DELAY
           THEN /\ Len(fired) < MaxFires
                /\ runs' = [runs EXCEPT ![r].pc = "action"]
                /\ fired' = Append(fired, [by |-> r, at |-> clock, cursor |-> nxt])
           ELSE /\ runs' = [runs EXCEPT
                        ![r].pc = "sleep",
                        ![r].wake = clock + (IF diff >= MAX_DELAY THEN MAX_DELAY ELSE diff)]
                /\ UNCHANGED fired
    /\ UNCHANGED <<clock, cron, task, warned>>

\* asyncio.sleep is over
RunWake(r) ==
    /\ r \in 1..Len(runs)
    /\ runs[r].pc = "sleep" /\ ~runs[r].cancel
    /\ clock >= runs[r].wake
    /\ runs' = [runs EXCEPT ![r].pc = "loop", ![r].wake = 0]
    /\ UNCHANGED <<clock, cron, task, warned, fired>>

\* the action returns: the cursor moves to the next fire time
RunActionDone(r) ==
    /\ r \in 1..Len(runs)
    /\ runs[r].pc = "action" /\ ~runs[r].cancel
    /\ cron' = get_next(cron)
    /\ runs' = [runs EXCEPT ![r].pc = "loop"]
    /\ UNCHANGED <<clock, task, warned, fired>>

\* the action raises
RunActionRaised(r) ==
    /\ r \in 1..Len(runs)
    /\ runs[r].pc = "action" /\ ~runs[r].cancel
    /\ action_raised(r)
    /\ UNCHANGED <<clock, task, warned, fired>>

\* CancelledError reaches the task where it is suspended
RunCancelled(r) ==
    /\ r \in 1..Len(runs)
    /\ runs[r].cancel
    /\ runs[r].pc \notin {"dead", "cancelled"}
    /\ runs' = [runs EXCEPT ![r].pc = "cancelled", ![r].wake = 0]
    /\ UNCHANGED <<clock, cron, task, warned, fired>>

SchedTick ==
    /\ clock < MaxSchedTime
    /\ clock' = clock + 1
    /\ UNCHANGED <<cron, task, runs, warned, fired>>

\* ScheduLRR.__init__ at some moment of a period: the cursor is the
\* construction time, no task yet
InitSched ==
    /\ clock \in 0..(Period - 1)
    /\ cron = clock
    /\ task = 0
    /\ runs = <<>>
    /\ warned = 0
    /\ fired = <<>>

----------------------------------------------------------------------------
InitFeedIdle ==
    /\ remote = 0 /\ updater = 0 /\ auto = 0 /\ manual = 0
    /\ feedlog = 0 /\ published = 0

InitSchedIdle ==
    /\ clock = 0 /\ cron = 0 /\ task = 0 /\ runs = 0 /\ warned = 0 /\ fired = 0

InitProtoIdle ==
    /\ channels = 0 /\ msglock = 0 /\ senders = 0 /\ wire = 0

InitConnIdle ==
    /\ restart = 0 /\ irc = 0 /\ disconnects = 0 /\ loop = 0 /\ quits = 0

InitPoolIdle ==
    /\ pool = 0 /\ pool_lock = 0 /\ getters = 0 /\ created = 0

InitModIdle ==
    /\ mods = 0 /\ cache = 0 /\ checks = 0

InitLibIdle ==
    /\ InitProtoIdle /\ InitConnIdle /\ InitPoolIdle /\ InitModIdle

\* The dispatcher: any line, from any configured prefix, at a clock reading
\* below or above the span.
Init ==
    /\ InitCmd
    /\ prefix \in Prefixes
    /\ spam_span = [h \in Handlers |-> DefaultSpan]
    /\ now \in {0, DefaultSpan + 1}
    /\ InitFeedIdle
    /\ InitSchedIdle
    /\ InitLibIdle

Privmsg ==
    /\ Len(events) < MaxMsgs
    /\ \E nick \in Nicks, target \in Targets, message \in Messages :
            handle_privmsg(nick, target, message)


Next ==
    \/ Privmsg /\ UNCHANGED <<feedVars, schedVars, libVars>>
    \/ (\E e \in 1..MaxMsgs : BodyReply(e)) /\ UNCHANGED <<feedVars, schedVars, libVars>>
    \/ (\E e \in 1..MaxMsgs : BodyRaise(e)) /\ UNCHANGED <<feedVars, schedVars, libVars>>
    \/ NewCommandHandler /\ UNCHANGED <<feedVars, schedVars, libVars>>

Spec == Init /\ [][Next]_vars

\* The limiter: two guarded commands called again and again while the
\* clock runs.  The clock starts above every span tried; readings at or
\* below the span are those of Init.
InitLimiter ==
    /\ InitCmd
    /\ prefix = <<"&">>
    /\ \E s \in Spans : spam_span = [h \in Handlers |-> s]
    /\ now = MaxSpan + 1
    /\ InitFeedIdle
    /\ InitSchedIdle
    /\ InitLibIdle

Call ==
    /\ Len(events) < MaxCalls
    /\ \E message \in LimiterMessages : handle_privmsg("alice", "#lrr", message)


NextLimiter ==
    \/ Call /\ UNCHANGED <<feedVars, schedVars, libVars>>
    \/ (\E e \in 1..MaxCalls : BodyReply(e)) /\ UNCHANGED <<feedVars, schedVars, libVars>>
    \/ (\E e \in 1..MaxCalls : BodyRaise(e)) /\ UNCHANGED <<feedVars, schedVars, libVars>>
    \/ Tick /\ UNCHANGED <<feedVars, schedVars, libVars>>

SpecLimiter == InitLimiter /\ [][NextLimiter]_vars

InitCmdIdle ==
    /\ InitCmd
    /\ prefix = <<"&">>
    /\ spam_span = [h \in Handlers |-> DefaultSpan]

\* The handlers' bodies: the song command calling the rdio and last.fm
\* commands.
InitHandlers ==
    /\ InitCmd
    /\ prefix = <<"&">>
    /\ spam_span = [h \in Handlers |-> MaxSpan]
    /\ now = MaxSpan + 1
    /\ InitFeedIdle
    /\ InitSchedIdle
    /\ InitLibIdle

Dispatch ==
    /\ Cardinality({e \in 1..Len(events) : events[e].parent = 0}) < MaxMsgs
    /\ \E message \in HandlerMessages : handle_privmsg("alice", "#lrr", message)

\* a second passes while handlers wait for their collaborators
Wait ==
    /\ now < MaxSpan + 1 + MaxWait
    /\ now' = now + 1
    /\ UNCHANGED <<prefix, handlers, routes, spam_span, spam_last, events, outbox>>

NextHandlers ==
    \/ Dispatch /\ UNCHANGED <<feedVars, schedVars, libVars>>
    \/ (\E e \in 1..(2 * MaxMsgs) : BodyReply(e)) /\ UNCHANGED <<feedVars, schedVars, libVars>>
    \/ (\E e \in 1..(2 * MaxMsgs) : BodyRaise(e)) /\ UNCHANGED <<feedVars, schedVars, libVars>>
    \/ (\E e \in 1..(2 * MaxMsgs), h \in {"rdio", "lastfm"} : SongDelegate(e, h))
            /\ UNCHANGED <<feedVars, schedVars, libVars>>
    \/ Wait /\ UNCHANGED <<feedVars, schedVars, libVars>>

SpecHandlers == InitHandlers /\ [][NextHandlers]_vars

\* The status commands: the query answers, fails or runs into the timeout
\* while time passes.  Time does pass and a timer that is due does fire.
Query ==
    /\ Len(events) < MaxMsgs
    /\ \E target \in Targets, message \in StatusMessages :
            handle_privmsg("alice", target, message)

Answered ==
    (\E e \in 1..MaxMsgs, status \in {"None", "Online"} : StatusAnswered(e, status))
        /\ UNCHANGED <<feedVars, schedVars, libVars>>

Expired ==
    (\E e \in 1..MaxMsgs : StatusExpired(e)) /\ UNCHANGED <<feedVars, schedVars, libVars>>

Passing ==
    Wait /\ UNCHANGED <<feedVars, schedVars, libVars>>

NextStatus ==
    \/ Query /\ UNCHANGED <<feedVars, schedVars, libVars>>
    \/ Answered
    \/ (\E e \in 1..MaxMsgs : BodyRaise(e)) /\ UNCHANGED <<feedVars, schedVars, libVars>>
    \/ Expired
    \/ Passing

SpecStatus ==
    /\ InitHandlers
    /\ [][NextStatus]_vars
    /\ WF_vars(Passing)
    /\ WF_vars(Expired)

cmdRest == <<prefix, handlers, routes, spam_span, spam_last, events, outbox>>

\* The feed poller: the automatic updates of both feeds, latest commands,
\* the feed source publishing and failing, and the shutdown.
InitFeedSpec ==
    /\ InitCmdIdle
    /\ now = Delay
    /\ InitFeed
    /\ InitSchedIdle
    /\ InitLibIdle

NextFeed ==
    \/ (\E f \in RSS_FEEDS : Publish(f)) /\ UNCHANGED <<cmdRest, schedVars, libVars>>
    \/ FeedTick /\ UNCHANGED <<cmdRest, schedVars, libVars>>
    \/ (\E f \in RSS_FEEDS : AutoLoop(f)) /\ UNCHANGED <<cmdRest, schedVars, libVars>>
    \/ (\E f \in RSS_FEEDS : AutoWake(f)) /\ UNCHANGED <<cmdRest, schedVars, libVars>>
    \/ (\E f \in RSS_FEEDS : AutoLocked(f)) /\ UNCHANGED <<cmdRest, schedVars, libVars>>
    \/ (\E f \in RSS_FEEDS : AutoFetched(f)) /\ UNCHANGED <<cmdRest, schedVars, libVars>>
    \/ (\E f \in RSS_FEEDS : AutoFetchFailed(f)) /\ UNCHANGED <<cmdRest, schedVars, libVars>>
    \/ (\E f \in RSS_FEEDS : AutoStore(f)) /\ UNCHANGED <<cmdRest, schedVars, libVars>>
    \/ (\E f \in RSS_FEEDS : AutoAnnounced(f)) /\ UNCHANGED <<cmdRest, schedVars, libVars>>
    \/ (\E f \in RSS_FEEDS : AutoCancelled(f)) /\ UNCHANGED <<cmdRest, schedVars, libVars>>
    \/ (\E m \in Manuals, f \in RSS_FEEDS : ManualUpdate(m, f)) /\ UNCHANGED <<cmdRest, schedVars, libVars>>
    \/ (\E m \in Manuals : ManualLocked(m)) /\ UNCHANGED <<cmdRest, schedVars, libVars>>
    \/ (\E m \in Manuals : ManualFetched(m)) /\ UNCHANGED <<cmdRest, schedVars, libVars>>
    \/ (\E m \in Manuals : ManualFetchFailed(m)) /\ UNCHANGED <<cmdRest, schedVars, libVars>>
    \/ (\E m \in Manuals : ManualStore(m)) /\ UNCHANGED <<cmdRest, schedVars, libVars>>
    \/ (\E m \in Manuals : ManualAnnounced(m)) /\ UNCHANGED <<cmdRest, schedVars, libVars>>
    \/ (\E m \in Manuals : ManualReplied(m)) /\ UNCHANGED <<cmdRest, schedVars, libVars>>
    \/ FeedStop /\ UNCHANGED <<cmdRest, schedVars, libVars>>

SpecFeed == InitFeedSpec /\ [][NextFeed]_vars

\* The scheduler: start() and stop() in any order while the clock runs and
\* the action returns or raises.
InitSchedSpec ==
    /\ InitCmdIdle
    /\ now = 0
    /\ InitFeedIdle
    /\ InitSched
    /\ InitLibIdle

NextSched ==
    \/ Start /\ UNCHANGED <<cmdVars, feedVars, libVars>>
    \/ Stop /\ UNCHANGED <<cmdVars, feedVars, libVars>>
    \/ (\E r \in 1..MaxStarts : RunLoop(r)) /\ UNCHANGED <<cmdVars, feedVars, libVars>>
    \/ (\E r \in 1..MaxStarts : RunWake(r)) /\ UNCHANGED <<cmdVars, feedVars, libVars>>
    \/ (\E r \in 1..MaxStarts : RunActionDone(r)) /\ UNCHANGED <<cmdVars, feedVars, libVars>>
    \/ (\E r \in 1..MaxStarts : RunActionRaised(r)) /\ UNCHANGED <<cmdVars, feedVars, libVars>>
    \/ (\E r \in 1..MaxStarts : RunCancelled(r)) /\ UNCHANGED <<cmdVars, feedVars, libVars>>
    \/ SchedTick /\ UNCHANGED <<cmdVars, feedVars, libVars>>

\* The poller's life: start() and stop() in any order while the automatic
\* updates run.
InitFeedLife ==
    /\ InitCmdIdle
    /\ now = Delay
    /\ InitFeedNew
    /\ InitSchedIdle
    /\ InitLibIdle

NextFeedLife ==
    \/ FeedStart /\ UNCHANGED <<cmdRest, schedVars, libVars>>
    \/ FeedStop /\ UNCHANGED <<cmdRest, schedVars, libVars>>
    \/ (\E f \in RSS_FEEDS : OldCancelled(f)) /\ UNCHANGED <<cmdRest, schedVars, libVars>>
    \/ (\E f \in RSS_FEEDS : AutoLoop(f)) /\ UNCHANGED <<cmdRest, schedVars, libVars>>
    \/ (\E f \in RSS_FEEDS : AutoWake(f)) /\ UNCHANGED <<cmdRest, schedVars, libVars>>
    \/ (\E f \in RSS_FEEDS : AutoFetched(f)) /\ UNCHANGED <<cmdRest, schedVars, libVars>>
    \/ (\E f \in RSS_FEEDS : AutoFetchFailed(f)) /\ UNCHANGED <<cmdRest, schedVars, libVars>>
    \/ (\E f \in RSS_FEEDS : AutoStore(f)) /\ UNCHANGED <<cmdRest, schedVars, libVars>>
    \/ (\E f \in RSS_FEEDS : AutoAnnounced(f)) /\ UNCHANGED <<cmdRest, schedVars, libVars>>
    \/ (\E f \in RSS_FEEDS : AutoCancelled(f)) /\ UNCHANGED <<cmdRest, schedVars, libVars>>
    \/ (\E f \in RSS_FEEDS : Publish(f)) /\ UNCHANGED <<cmdRest, schedVars, libVars>>
    \/ FeedTick /\ UNCHANGED <<cmdRest, schedVars, libVars>>

SpecFeedLife == InitFeedLife /\ [][NextFeedLife]_vars

SpecSched == InitSchedSpec /\ [][NextSched]_vars

\* The limiter's scenario: the default span, the loop's clock at 0, and
\* calls made at the clock readings 0, 10 and 16.
ScenarioClock == {0, 10, 16}

InitScenario ==
    /\ InitCmd
    /\ prefix = <<"&">>
    /\ spam_span = [h \in Handlers |-> DefaultSpan]
    /\ now = 0
    /\ InitFeedIdle
    /\ InitSchedIdle
    /\ InitLibIdle

\* the loop's clock moves on to a later reading of the scenario
Jump ==
    /\ \E t \in ScenarioClock : t > now /\ now' = t
    /\ UNCHANGED <<prefix, handlers, routes, spam_span, spam_last, events, outbox>>

NextScenario ==
    \/ Call /\ UNCHANGED <<feedVars, schedVars, libVars>>
    \/ (\E e \in 1..MaxCalls : BodyReply(e)) /\ UNCHANGED <<feedVars, schedVars, libVars>>
    \/ (\E e \in 1..MaxCalls : BodyRaise(e)) /\ UNCHANGED <<feedVars, schedVars, libVars>>
    \/ Jump /\ UNCHANGED <<feedVars, schedVars, libVars>>

SpecScenario == InitScenario /\ [][NextScenario]_vars

----------------------------------------------------------------------------
(* protocol.py: Protocol.privmsg and Protocol.announce, and                *)
(* LRRFeedParser.announce that calls them.  Every call is a record of      *)
(* senders and is known by its position there; task is the task the call   *)
(* runs in, the auto_update task of a feed or a command's.                 *)

MaxSenders == 3
MaxProtoTicks == 3

NoTarget == ""
ChannelConfigs == {<<"#lrr", "#pump19">>}
FeedNames == RSS_FEEDS \cup {"comic"}
CmdTask == "cmd"

\* announce(), lines 135-137: the feed's title, the entry's title, url, time
entry_msg(f, entry) == <<f, entry>>

\* an announce() that always takes the broadcast branch
announce_op_all(target) == "announce"

\* announce(), lines 139-142: "if target:"
announce_op(target) == IF target # NoTarget THEN "privmsg" ELSE "announce"

NewSender(op, feed, target, message, who) ==
    [op |-> op, feed |-> feed, target |-> target, message |-> message,
     task |-> who, pc |-> "new", i |-> 0, wake |-> 0]

\* the targets of the irc.send calls of a call: privmsg() has one, announce()
\* loops over self.channels
Dest(s) ==
    IF s.op = "privmsg" THEN <<s.target>>
    ELSE IF s.op = "announce" THEN channels
    ELSE <<>>

\* self.irc.send("PRIVMSG", target=..., message=...)
Line(target, message, by) ==
    [target |-> target, message |-> message, at |-> now, by |-> by]

\* the call stop() has cancelled the task of
Cancelling(s) == s.task \in RSS_FEEDS /\ auto[s.task].cancel

\* the body of "async with self.msglock" up to its first sleep(1)
Entered(s) ==
    IF Dest(s) = <<>> THEN [s EXCEPT !.pc = "done"]
    ELSE [s EXCEPT !.pc = "sleep", !.i = 1, !.wake = now + 1]

\* call id of record s, in log, takes the lock
Enter(id, s, log) ==
    /\ senders' = [log EXCEPT ![id] = Entered(s)]
    /\ msglock' = IF Dest(s) = <<>> THEN 0 ELSE id
    /\ wire' = IF Dest(s) = <<>> THEN wire
               ELSE Append(wire, Line(Dest(s)[1], s.message, id))

\* privmsg() or announce() is called: asyncio.Lock.acquire returns at once
\* when the lock is free, and waits otherwise
client_call(s) ==
    IF msglock = 0
    THEN Enter(Len(senders) + 1, s, Append(senders, s))
    ELSE /\ senders' = Append(senders, [s EXCEPT !.pc = "lock"])
         /\ UNCHANGED <<msglock, wire>>

\* LRRFeedParser.announce(feed, target=target) called in task who
feed_announce(f, target, who) ==
    IF Unknown(f) \/ updater[f].latest = 0
    THEN /\ senders' = Append(senders,
                [NewSender("none", f, target, <<>>, who) EXCEPT !.pc = "done"])
         /\ UNCHANGED <<msglock, wire>>
    ELSE client_call(NewSender(announce_op(target), f, target,
                               entry_msg(f, updater[f].latest), who))

\* a command's task calls announce(feed, target=target), as
\* handle_command_latest does; announce(feed) without a target is
\* update()'s call
Announce(f, target) ==
    /\ Len(senders) < MaxSenders
    /\ feed_announce(f, target, CmdTask)
    /\ UNCHANGED <<now, channels, feedVars>>

\* a command handler replies: client.privmsg(target, text)
Reply(target) ==
    /\ Len(senders) < MaxSenders
    /\ client_call(NewSender("privmsg", "", target, <<"reply">>, CmdTask))
    /\ UNCHANGED <<now, channels, feedVars>>

\* the lock is handed to a waiting call
MsgLocked(s) ==
    /\ s \in 1..Len(senders)
    /\ senders[s].pc = "lock" /\ ~Cancelling(senders[s])
    /\ msglock = 0
    /\ Enter(s, senders[s], senders)
    /\ UNCHANGED <<now, channels, feedVars>>

\* asyncio.sleep(1) is over: the next channel's line, or the end of the
\* "async with" block
MsgSlept(s) ==
    /\ s \in 1..Len(senders)
    /\ senders[s].pc = "sleep" /\ ~Cancelling(senders[s])
    /\ now >= senders[s].wake
    /\ LET d == Dest(senders[s])
           i == senders[s].i
       IN  IF i < Len(d)
           THEN /\ wire' = Append(wire, Line(d[i + 1], senders[s].message, s))
                /\ senders' = [senders EXCEPT ![s].i = i + 1, ![s].wake = now + 1]
                /\ UNCHANGED msglock
           ELSE /\ senders' = [senders EXCEPT ![s].pc = "done", ![s].wake = 0]
                /\ msglock' = 0
                /\ UNCHANGED wire
    /\ UNCHANGED <<now, channels, feedVars>>

\* the calls of a task that have not returned
Active(who) ==
    {s \in 1..Len(senders) : senders[s].task = who /\ senders[s].pc \in {"lock", "sleep"}}

\* client.announce returns to update() in the auto_update task
AnnounceReturned(f) ==
    /\ Active(f) = {}
    /\ AutoAnnounced(f)
    /\ UNCHANGED protoVars

\* CancelledError reaches the auto_update task inside client.announce: the
\* "async with" block releases msglock, update() releases the feed's lock
AnnounceCancelled(f) ==
    /\ AutoCancelled(f)
    /\ senders' = [s \in 1..Len(senders) |->
                    IF s \in Active(f) THEN [senders[s] EXCEPT !.pc = "cancelled"]
                    ELSE senders[s]]
    /\ msglock' = IF msglock \in Active(f) THEN 0 ELSE msglock
    /\ UNCHANGED <<channels, wire>>

ProtoStart == 2 * Delay + 1

ProtoTick ==
    /\ now < ProtoStart + MaxProtoTicks
    /\ now' = now + 1
    /\ UNCHANGED <<channels, msglock, senders, wire, feedVars>>

\* The poller at the moment an auto_update task has stored a changed entry
\* and called announce(): the first channel's line is out.  The other
\* feed's task has ended with its first request.
InitProto ==
    /\ InitCmdIdle
    /\ now = ProtoStart
    /\ InitSchedIdle
    /\ InitConnIdle
    /\ InitPoolIdle
    /\ InitModIdle
    /\ channels \in ChannelConfigs
    /\ \E live \in {"video"} :
        /\ remote = [f \in RSS_FEEDS |-> IF f = live THEN 2 ELSE 0]
        /\ published = [f \in RSS_FEEDS |-> IF f = live THEN 1 ELSE 0]
        /\ updater = [f \in RSS_FEEDS |->
                IF f = live
                THEN [running |-> TRUE, lock |-> AutoId, last |-> now, latest |-> 2]
                ELSE [running |-> TRUE, lock |-> 0, last |-> 0, latest |-> 0]]
        /\ auto = [f \in RSS_FEEDS |->
                [NewTask(1, 0) EXCEPT !.pc = IF f = live THEN "announce" ELSE "dead"]]
        /\ feedlog = [f \in RSS_FEEDS |->
                IF f = live
                THEN [stores |-> 2, announces |-> 1, by |-> AutoId, old |-> 1,
                      new |-> 2, at |-> now, announced |-> 1]
                ELSE [stores |-> 0, announces |-> 0, by |-> 0, old |-> 0,
                      new |-> 0, at |-> 0, announced |-> 0]]
        /\ senders = <<[NewSender("announce", live, NoTarget, entry_msg(live, 2), live)
                            EXCEPT !.pc = "sleep", !.i = 1, !.wake = now + 1]>>
        /\ wire = <<Line(channels[1], entry_msg(live, 2), 1)>>
    /\ manual = [m \in Manuals |-> [pc |-> "idle", feed |-> "video", new |-> 0]]
    /\ msglock = 1

protoRest == <<cmdRest, schedVars, connVars, poolVars, modVars>>

\* The sender: announce() and privmsg() called from several tasks while an
\* automatic announcement is under way, update() for feeds that do not run
\* (the updates of those that do are SpecFeed's), and the shutdown.
NextProto ==
    \/ (\E f \in FeedNames : Announce(f, "alice"))
            /\ UNCHANGED protoRest
    \/ Reply("#lrr") /\ UNCHANGED protoRest
    \/ (\E m \in Manuals, f \in FeedNames : Unknown(f) /\ ManualUpdate(m, f))
            /\ UNCHANGED <<protoRest, protoVars>>
    \/ (\E s \in 1..MaxSenders : MsgLocked(s)) /\ UNCHANGED protoRest
    \/ (\E s \in 1..MaxSenders : MsgSlept(s)) /\ UNCHANGED protoRest
    \/ (\E f \in RSS_FEEDS : AnnounceReturned(f)) /\ UNCHANGED protoRest
    \/ (\E f \in RSS_FEEDS : AnnounceCancelled(f)) /\ UNCHANGED protoRest
    \/ FeedStop /\ UNCHANGED <<protoRest, protoVars>>
    \/ ProtoTick /\ UNCHANGED protoRest

SpecProto == InitProto /\ [][NextProto]_vars

----------------------------------------------------------------------------
(* dbutils.py: get_pool (quotes.py holds a copy of it, word for word).     *)
(* Every call is a record of getters and is known by its position there.   *)

MaxGetters == 4

\* a lock that every caller finds free
PoolLockIgnored == TRUE

\* asyncio.Lock: acquire() returns at once when the lock is not held
PoolLockFree == pool_lock = 0

\* inside "with (yield from get_pool._lock)": "if not get_pool._pool" sends
\* the caller to aiopg.create_pool, otherwise it returns the pool and the
\* lock is released
PoolEntered(g, log) ==
    IF pool = 0
    THEN /\ getters' = [log EXCEPT ![g].pc = "create"]
         /\ pool_lock' = g
    ELSE /\ getters' = [log EXCEPT ![g].pc = "done", ![g].got = pool]
         /\ pool_lock' = 0

\* get_pool() is called
GetPool ==
    /\ Len(getters) < MaxGetters
    /\ LET g == Len(getters) + 1
       IN  IF PoolLockFree
           THEN PoolEntered(g, Append(getters, [pc |-> "new", got |-> 0, waited |-> FALSE]))
           ELSE /\ getters' = Append(getters, [pc |-> "lock", got |-> 0, waited |-> TRUE])
                /\ UNCHANGED pool_lock
    /\ UNCHANGED <<pool, created>>

\* the lock is handed to a waiting caller
PoolLocked(g) ==
    /\ g \in 1..Len(getters)
    /\ getters[g].pc = "lock"
    /\ PoolLockFree
    /\ PoolEntered(g, getters)
    /\ UNCHANGED <<pool, created>>

\* aiopg.create_pool returns a pool: it is stored and returned
PoolCreated(g) ==
    /\ g \in 1..Len(getters)
    /\ getters[g].pc = "create"
    /\ created' = created + 1
    /\ pool' = created + 1
    /\ getters' = [getters EXCEPT ![g].pc = "done", ![g].got = created + 1]
    /\ pool_lock' = 0

\* aiopg.create_pool raises: the with block releases the lock
PoolCreateFailed(g) ==
    /\ g \in 1..Len(getters)
    /\ getters[g].pc = "create"
    /\ getters' = [getters EXCEPT ![g].pc = "raised"]
    /\ pool_lock' = 0
    /\ UNCHANGED <<pool, created>>

InitPool ==
    /\ InitCmdIdle
    /\ now = 0
    /\ InitFeedIdle
    /\ InitSchedIdle
    /\ InitProtoIdle
    /\ InitConnIdle
    /\ InitModIdle
    /\ pool = 0 /\ pool_lock = 0 /\ getters = <<>> /\ created = 0

poolRest == <<cmdVars, feedVars, schedVars, protoVars, connVars, modVars>>

\* The pool: callers of get_pool() in any order while the database
\* answers or fails.
NextPool ==
    \/ GetPool /\ UNCHANGED poolRest
    \/ (\E g \in 1..MaxGetters : PoolLocked(g)) /\ UNCHANGED poolRest
    \/ (\E g \in 1..MaxGetters : PoolCreated(g)) /\ UNCHANGED poolRest
    \/ (\E g \in 1..MaxGetters : PoolCreateFailed(g)) /\ UNCHANGED poolRest

SpecPool == InitPool /\ [][NextPool]_vars

----------------------------------------------------------------------------
(* twitch.py: is_moderator and its cache.  Every call is a record of       *)
(* checks.                                                                  *)

MaxChecks == 3

Streams == {"loadingreadyrun", "lrrmtg"}
Users == {"alice"}

\* key = (stream, user)
CacheKey(stream, user) == <<stream, user>>

\* "key in is_moderator.cache"
Cached(key) == \E k \in 1..Len(cache) : cache[k] = key

\* a check that remembers every answer
remembers_all(user, list) == TRUE

\* "if user in mods": the key is appended to the cache
remembers(user, list) == user \in list

\* is_moderator(stream, user) is called: a cached key answers at once,
\* any other asks the chat service
IsModerator(stream, user) ==
    /\ Len(checks) < MaxChecks
    /\ checks' = Append(checks,
            IF Cached(CacheKey(stream, user))
            THEN [stream |-> stream, user |-> user, pc |-> "done",
                  result |-> TRUE, queried |-> FALSE]
            ELSE [stream |-> stream, user |-> user, pc |-> "query",
                  result |-> FALSE, queried |-> TRUE])
    /\ UNCHANGED <<mods, cache>>

\* get_moderators returns the list the chat service has now
ModsAnswered(c) ==
    /\ c \in 1..Len(checks)
    /\ checks[c].pc = "query"
    /\ LET list == mods[checks[c].stream]
           user == checks[c].user
       IN  /\ cache' = IF remembers(user, list)
                       THEN Append(cache, CacheKey(checks[c].stream, user))
                       ELSE cache
           /\ checks' = [checks EXCEPT ![c].pc = "done", ![c].result = user \in list]
    /\ UNCHANGED mods

\* get_moderators raises: the request fails or its answer is not the
\* expected document
ModsFailed(c) ==
    /\ c \in 1..Len(checks)
    /\ checks[c].pc = "query"
    /\ checks' = [checks EXCEPT ![c].pc = "raised"]
    /\ UNCHANGED <<mods, cache>>

\* the chat service lists a user as moderator of a stream, or no longer
ModsChange(stream, user) ==
    /\ mods' = [mods EXCEPT ![stream] =
                    IF user \in @ THEN @ \ {user} ELSE @ \cup {user}]
    /\ UNCHANGED <<cache, checks>>

InitMod ==
    /\ InitCmdIdle
    /\ now = 0
    /\ InitFeedIdle
    /\ InitSchedIdle
    /\ InitProtoIdle
    /\ InitConnIdle
    /\ InitPoolIdle
    /\ mods \in [Streams -> SUBSET Users]
    /\ cache = <<>>
    /\ checks = <<>>

modRest == <<cmdVars, feedVars, schedVars, protoVars, connVars, poolVars>>

\* The moderator check: calls in any order while the chat service's list
\* changes.
NextMod ==
    \/ (\E stream \in Streams, user \in Users : IsModerator(stream, user))
            /\ UNCHANGED modRest
    \/ (\E c \in 1..MaxChecks : ModsAnswered(c)) /\ UNCHANGED modRest
    \/ (\E c \in 1..MaxChecks : ModsFailed(c)) /\ UNCHANGED modRest
    \/ (\E stream \in Streams, user \in Users : ModsChange(stream, user))
            /\ UNCHANGED modRest

SpecMod == InitMod /\ [][NextMod]_vars

----------------------------------------------------------------------------
(* Claims about the limiter, the router and the dispatcher.                *)

Ran(e)    == events[e].outcome \in {"running", "replied", "raised", "delegated",
                                    "expired", "nostatus"}
Called(e) == events[e].callback # NoCallback
CallsOf(h) == {e \in 1..Len(events) : events[e].callback.name = h}
\* b is the call of the same wrapped function that follows call a
NextCall(a, b) ==
    /\ a < b
    /\ events[a].callback.name = events[b].callback.name
    /\ \A c \in CallsOf(events[a].callback.name) : ~(a < c /\ c < b)

\* C1, as stated: of the two calls made of a wrapped function, exactly one
\* runs the body when their clock readings differ by less than the span,
\* and both run it when they differ by the span or more.
C1_AsStated ==
    \A h \in Handlers :
        Cardinality(CallsOf(h)) = 2 =>
            LET a == Min(CallsOf(h))
                b == Max(CallsOf(h))
                d == events[b].at - events[a].at
            IN  /\ d < spam_span[h] => (Ran(a) /\ ~Ran(b)) \/ (~Ran(a) /\ Ran(b))
                /\ d >= spam_span[h] => Ran(a) /\ Ran(b)

\* the stamp a call finds: the clock reading of the latest earlier call of
\* the same wrapped function that ran the body, 0 when there is none
StampBefore(e) ==
    Max({0} \cup {events[a].at : a \in {c \in CallsOf(events[e].callback.name) :
                                          c < e /\ Ran(c)}})

\* C1, amended: a call runs the body exactly when the clock reads more than
\* the span past the latest earlier call that ran it (past 0 when there is
\* none); so of two consecutive calls of which the first runs the body, the
\* second is suppressed when their clock readings differ by the span or
\* less (exactly the span included), and runs when they differ by more.
C1_SpanSeparation ==
    /\ \A e \in 1..Len(events) :
            Called(e) =>
                (Ran(e) <=> events[e].at - StampBefore(e)
                                > spam_span[events[e].callback.name])
    /\ \A a, b \in 1..Len(events) :
            (NextCall(a, b) /\ Ran(a)) =>
                LET d == events[b].at - events[a].at
                    h == events[a].callback.name
                IN  /\ d <= spam_span[h] => events[b].outcome = "suppressed"
                    /\ d > spam_span[h] => Ran(b)

C1_Witness ==
    \E a, b, c \in 1..Len(events) :
        /\ NextCall(a, b) /\ NextCall(b, c)
        /\ Ran(a)
        /\ events[b].at - events[a].at = spam_span[events[a].callback.name]
        /\ events[b].outcome = "suppressed"
        /\ events[c].at - events[a].at > spam_span[events[a].callback.name]
        /\ Ran(c)

\* C2: the timestamp is written in the same step as the gate's test, before
\* the body is awaited: while a call is suspended in its body the timestamp
\* is already its own or a later one, and no two calls of one wrapped
\* function whose clock readings lie within one span of each other both run
\* the body, however the calls and the resumptions of the bodies interleave.
C2_NoDoubleEntry ==
    /\ \A e \in 1..Len(events) :
            events[e].outcome = "running" =>
                spam_last[events[e].callback.name] >= events[e].at
    /\ \A a, b \in 1..Len(events) :
            (a # b /\ events[a].callback.name = events[b].callback.name
                   /\ Ran(a) /\ Ran(b)
                   /\ events[a].at <= events[b].at)
            => events[b].at - events[a].at > spam_span[events[a].callback.name]

C2_Witness ==
    \E a, b \in 1..Len(events) :
        /\ a < b
        /\ events[a].callback.name = events[b].callback.name
        /\ events[a].outcome = "running"
        /\ events[b].at = events[a].at
        /\ events[b].outcome = "suppressed"

\* C10: the first call of every wrapped function runs the body, whatever
\* the clock reads at that moment.
C10_FirstCallRuns ==
    \A e \in 1..Len(events) :
        (Called(e) /\ e = Min(CallsOf(events[e].callback.name))) => Ran(e)

\* What each pattern of CMD_REGEX is written to accept, and the groups it
\* is written to capture, said without the matcher.
WordAfter(head, s) ==
    /\ startswith(s, head)
    /\ Len(s) > Len(head)
    /\ \A i \in (Len(head) + 1)..Len(s) : s[i] \in WordChars

Accepts(key, s) ==
    CASE key = "patreon"  -> s = W_patreon
      [] key = "latest"   ->
            \/ s = W_latest
            \/ \E f \in {W_video, W_podcast, W_broadcast, W_highlight} :
                    s = W_latest \o SP \o f
      [] key = "codefall" -> s = W_codefall
      [] key = "lrrmc"    -> s = W_lrrmc
      [] key = "mumble"   -> s = W_mumble
      [] key = "rdio"     -> WordAfter(W_rdio \o SP, s)
      [] key = "lastfm"   -> WordAfter(W_last \o <<".">> \o W_fm \o SP, s)
      [] key = "song"     -> s = W_song
      [] key = "help"     -> s = W_help

Captures(key, s) ==
    CASE key = "latest" ->
            [g \in {"feed"} |-> SubSeq(s, Len(W_latest \o SP) + 1, Len(s))]
      [] key = "rdio"   ->
            [g \in {"user"} |-> SubSeq(s, Len(W_rdio \o SP) + 1, Len(s))]
      [] key = "lastfm" ->
            [g \in {"user"} |-> SubSeq(s, Len(W_last \o <<".">> \o W_fm \o SP) + 1, Len(s))]
      [] OTHER          -> [g \in {} |-> NoneText]

\* C5: for every text handed to the router, the route taken is the first
\* one of the table, in registration order, whose pattern accepts the whole
\* text, bound with that pattern's named captures; no route is taken
\* exactly when no pattern accepts the whole text (a pattern that accepts
\* only a prefix of the text does not count).
C5_FirstFullMatch ==
    \A e \in 1..Len(events) :
        events[e].outcome # "ignored" =>
            LET cmd == SubSeq(events[e].message, 2, Len(events[e].message))
                idx == {k \in 1..Len(routes) : Accepts(routes[k].regex, cmd)}
            IN  IF idx = {} THEN ~Called(e)
                ELSE /\ events[e].callback = routes[Min(idx)].callback
                     /\ events[e].kwargs = Captures(routes[Min(idx)].regex, cmd)

C5_Witness ==
    /\ Len(routes) = 2 * Len(CMD_KEYS)
    /\ \E a, b \in 1..Len(events) :
        /\ prefix = <<"&">>
        /\ events[a].message = M_latest_video
        /\ events[a].callback = [inst |-> 1, name |-> "latest"]
        /\ events[a].kwargs = [feed |-> W_video]
        /\ events[b].message = M_helpme
        /\ events[b].outcome = "unmatched"

\* C6: a line that does not start with the configured prefix, or that has
\* fewer than two characters, invokes no handler and nothing is ever sent
\* on its behalf.
C6_NoPrefixNoSend ==
    \A e \in 1..Len(events) :
        (~startswith(events[e].message, prefix) \/ Len(events[e].message) < 2) =>
            /\ events[e].outcome = "ignored"
            /\ ~Called(e)
            /\ \A o \in 1..Len(outbox) : outbox[o].ev # e

C6_Witness ==
    \E a, b \in 1..Len(events) :
        /\ prefix = <<"&">>
        /\ events[a].message = M_bang_help
        /\ events[a].outcome = "ignored"
        /\ events[b].message = M_amp
        /\ events[b].outcome = "ignored"
        /\ outbox = <<>>

----------------------------------------------------------------------------
(* Claims about the feed poller.                                           *)

\* the tasks inside update()'s with block for feed f
InSection(f) ==
    (IF auto[f].pc \in {"fetch", "store", "announce"} THEN {AutoId} ELSE {})
    \cup {m \in Manuals : manual[m].feed = f
                          /\ manual[m].pc \in {"fetch", "store", "announce"}}

\* C3: update() calls racing for one feed are serialized by the feed's
\* lock: at most one task is between its fetch and its store or announce,
\* and it is the holder of the lock; the stored latest entry and last-poll
\* time are those written by one and the same update; and the feed has
\* announced no more often than its source has published a new entry.
C3_Serialized ==
    \A f \in RSS_FEEDS :
        /\ Cardinality(InSection(f)) <= 1
        /\ InSection(f) # {} => updater[f].lock \in InSection(f)
        /\ feedlog[f].stores > 0 =>
                /\ updater[f].latest = feedlog[f].new
                /\ updater[f].last = feedlog[f].at
        /\ feedlog[f].announces <= published[f]

C3_Witness ==
    \E f \in RSS_FEEDS, m \in Manuals :
        /\ manual[m].feed = f /\ manual[m].pc = "lock"
        /\ auto[f].pc = "announce"
        /\ updater[f].lock = AutoId
        /\ published[f] = 1 /\ feedlog[f].announces = 1

\* C4: the first update() of a feed never triggers announce; a later one
\* triggers it once when the fetched entry's url differs from the stored
\* entry's, and not at all when the two are equal.
C4_AnnounceOnChange ==
    \A f \in RSS_FEEDS :
        feedlog[f].stores > 0 =>
            /\ feedlog[f].stores = 1 => (feedlog[f].old = 0 /\ feedlog[f].announced = 0)
            /\ (feedlog[f].old # 0 /\ feedlog[f].old # feedlog[f].new)
                    => feedlog[f].announced = 1
            /\ feedlog[f].old = feedlog[f].new => feedlog[f].announced = 0
            /\ feedlog[f].announces < feedlog[f].stores

C4_Witness ==
    \E f \in RSS_FEEDS :
        /\ feedlog[f].stores = 3
        /\ feedlog[f].announces = 1
        /\ feedlog[f].old = feedlog[f].new
        /\ feedlog[f].announced = 0

\* C9: a failing fetch never ends the auto_update task of a feed.
C9_AutoSurvivesFetchError ==
    \A f \in RSS_FEEDS : auto[f].pc # "dead"

----------------------------------------------------------------------------
(* Claims about the scheduler.                                             *)

\* C7: start() on a scheduler that is already running logs a warning and
\* does nothing else: no task is created, the task handle is kept and the
\* cron cursor stays where it is.
C7_SecondStartNoOp ==
    [][(task # 0 /\ warned' = warned + 1)
            => (runs' = runs /\ task' = task /\ cron' = cron)]_vars

\* C8: an exception raised by the scheduled action never ends a run() task.
C8_ActionFailureSurvived ==
    \A r \in 1..Len(runs) : runs[r].pc # "dead"

----------------------------------------------------------------------------
(* Claims about the handlers' bodies and the frame of the dispatcher.      *)

\* the calls handle_privmsg made of the wrapper of command h
Dispatched(h) ==
    {e \in 1..Len(events) : events[e].parent = 0 /\ events[e].callback.name = h}

\* C11: every guarded command owns its cooldown: the timestamp of a command
\* is only ever the clock reading of an execution of that very command, and
\* a command is suppressed only within one span of an earlier execution of
\* that very command.
C11_OwnCooldown ==
    /\ \A h \in Handlers :
            spam_last[h] # 0 =>
                \E e \in Dispatched(h) : Ran(e) /\ events[e].at = spam_last[h]
    /\ \A h \in Handlers : \A e \in Dispatched(h) :
            events[e].outcome = "suppressed" =>
                \E a \in Dispatched(h) :
                    /\ a < e /\ Ran(a)
                    /\ events[e].at - events[a].at <= spam_span[h]

\* C12: a suppressed call has no effect: the step that suppresses it leaves
\* every timestamp and the outbox as they are, the call stays suppressed
\* for good (its body never runs, it never raises), nothing is ever sent on
\* its behalf, and a timestamp changes only in a step in which a call of
\* that wrapper passes the gate.
C12_SuppressedNoEffect ==
    /\ [][\A e \in 1..Len(events') :
            (e > Len(events) /\ events'[e].outcome = "suppressed")
                => (spam_last' = spam_last /\ outbox' = outbox)]_vars
    /\ [][\A e \in 1..Len(events) :
            events[e].outcome = "suppressed" => events'[e] = events[e]]_vars
    /\ [][\A h \in Handlers :
            spam_last'[h] # spam_last[h] =>
                /\ Len(events') = Len(events) + 1
                /\ events'[Len(events')].callback.name = h
                /\ events'[Len(events')].outcome = "running"
                /\ spam_last'[h] = events'[Len(events')].at]_vars
    /\ [](\A e \in 1..Len(events) :
            events[e].outcome = "suppressed" =>
                \A o \in 1..Len(outbox) : outbox[o].ev # e)

\* a call is suppressed after the clock has moved on from the call that
\* stamped the wrapper, and calls of the wrapper go on afterwards
C12_Witness ==
    \E a, b, c \in 1..Len(events) :
        /\ NextCall(a, b) /\ NextCall(b, c)
        /\ events[a].outcome = "replied"
        /\ events[b].outcome = "suppressed"
        /\ events[b].at > events[a].at
        /\ spam_last[events[a].callback.name] = events[a].at
        /\ events[c].outcome = "suppressed"

\* C13: the reply target of a line sent to the golem's own nickname is the
\* sender's nick, that of every other line is the line's target; it is
\* settled before the routing (also for a line no route matches), the
\* handler is called with it and every reply of the handler goes to it.
C13_QueryAnsweredToNick ==
    /\ \A e \in 1..Len(events) :
            events[e].outcome # "ignored" =>
                /\ events[e].target = Nickname => events[e].to = events[e].nick
                /\ events[e].target # Nickname => events[e].to = events[e].target
    /\ \A o \in 1..Len(outbox) :
            LET e == outbox[o].ev
            IN  outbox[o].target =
                    IF events[e].target = Nickname THEN events[e].nick
                    ELSE events[e].target

C13_Witness ==
    \E a, b \in 1..Len(events) : \E o, q \in 1..Len(outbox) :
        /\ events[a].target = Nickname /\ events[a].outcome = "replied"
        /\ outbox[o].ev = a /\ outbox[o].target = "alice"
        /\ events[b].target = "#lrr" /\ events[b].outcome = "replied"
        /\ outbox[q].ev = b /\ outbox[q].target = "#lrr"

\* C14: whatever the configured prefix is, a line is ignored exactly when
\* it does not start with the prefix or is shorter than the prefix and one
\* more character, and every other line is routed by what follows the
\* whole prefix.
C14_WholePrefixStripped ==
    \A e \in 1..Len(events) :
        LET m     == events[e].message
            lacks == ~startswith(m, prefix) \/ Len(m) < Len(prefix) + 1
            cmd   == SubSeq(m, Len(prefix) + 1, Len(m))
            idx   == {k \in 1..Len(routes) : Accepts(routes[k].regex, cmd)}
        IN  /\ events[e].outcome = "ignored" <=> lacks
            /\ ~lacks =>
                    IF idx = {} THEN ~Called(e)
                    ELSE events[e].callback = routes[Min(idx)].callback

\* C15: a line that starts with the prefix and whose remainder is accepted
\* as a whole by some pattern gets the handler of the first such route
\* called, once, with the pattern's captures as keyword arguments and the
\* reply target and the sender as arguments.
C15_MatchedInvokedOnce ==
    \A e \in 1..Len(events) :
        LET m   == events[e].message
            cmd == SubSeq(m, Len(prefix) + 1, Len(m))
            idx == {k \in 1..Len(routes) : Accepts(routes[k].regex, cmd)}
        IN  (events[e].parent = 0 /\ startswith(m, prefix) /\ idx # {}) =>
                /\ events[e].callback = routes[Min(idx)].callback
                /\ events[e].kwargs = Captures(routes[Min(idx)].regex, cmd)
                /\ events[e].to = reply_target(events[e].nick, events[e].target)
                /\ events[e].outcome \in {"running", "replied", "raised", "suppressed"}

\* C16: a line with the prefix whose command text no pattern accepts is
\* dropped without a trace: no handler is called for it, the step that
\* takes it leaves the timestamps, the outbox and the feed poller as they
\* are, and it stays that way (nothing runs, raises or is sent later).
C16_UnmatchedSilent ==
    /\ [](\A e \in 1..Len(events) :
            LET m   == events[e].message
                cmd == SubSeq(m, 2, Len(m))
            IN  (startswith(m, prefix) /\ Len(m) >= 2
                    /\ \A k \in 1..Len(routes) : ~Accepts(routes[k].regex, cmd))
                => /\ events[e].outcome = "unmatched"
                   /\ ~Called(e)
                   /\ \A o \in 1..Len(outbox) : outbox[o].ev # e)
    /\ [][(Len(events') = Len(events) + 1
                /\ events'[Len(events')].outcome = "unmatched")
            => /\ spam_last' = spam_last /\ spam_span' = spam_span
               /\ outbox' = outbox
               /\ feedVars' = feedVars]_vars
    /\ [][\A e \in 1..Len(events) :
            events[e].outcome = "unmatched" => events'[e] = events[e]]_vars

\* a command is answered, then a line that only starts like a command is
\* dropped
C16_Witness ==
    \E a, b \in 1..Len(events) :
        /\ a < b
        /\ prefix = <<"&">>
        /\ events[a].outcome = "replied"
        /\ events[b].message = M_latest_vids
        /\ events[b].outcome = "unmatched"
        /\ Len(outbox) = 1
        /\ spam_last[events[a].callback.name] = events[a].at

\* C17: no call of a handler ends with an exception leaving the handler:
\* a matched command that is not suppressed is running or has replied.
C17_FailureBecomesReply ==
    \A e \in 1..Len(events) :
        Called(e) => events[e].outcome \in {"running", "replied", "suppressed"}

\* the lines sent for call e
SentFor(e) == {o \in 1..Len(outbox) : outbox[o].ev = e}

\* C18: the status query of lrrmc and mumble is bounded by the timeout:
\* a call that waits for the status and whose timeout lies within the time
\* considered ends; it has sent nothing while it waits; when the query was
\* answered or the timeout has expired it has sent exactly one line, to the
\* reply target, and that line says Unknown when the timeout expired or
\* no status came back.
C18_StatusBounded ==
    /\ [](\A e \in 1..Len(events) :
            events[e].callback.name \in StatusHandlers =>
                /\ events[e].outcome = "running" => SentFor(e) = {}
                /\ events[e].outcome \in {"replied", "nostatus", "expired"} =>
                        /\ Cardinality(SentFor(e)) = 1
                        /\ \A o \in SentFor(e) :
                            /\ outbox[o].target = events[e].to
                            /\ outbox[o].text =
                                IF events[e].outcome = "replied"
                                THEN "Online" ELSE "Unknown")
    /\ \A e \in 1..MaxMsgs :
            (/\ e <= Len(events)
             /\ events[e].outcome = "running"
             /\ events[e].at + STATUS_TIMEOUT <= MaxSpan + 1 + MaxWait)
            ~> (e <= Len(events) /\ events[e].outcome # "running")

\* one query ran into the timeout, one came back without a status
C18_Witness ==
    \E a, b \in 1..Len(events) : \E o, q \in 1..Len(outbox) :
        /\ events[a].callback.name = "lrrmc" /\ events[a].outcome = "expired"
        /\ outbox[o].ev = a /\ outbox[o].text = "Unknown"
        /\ events[b].callback.name = "mumble" /\ events[b].outcome = "nostatus"
        /\ outbox[q].ev = b /\ outbox[q].text = "Unknown"

----------------------------------------------------------------------------
(* Claims about the scheduler's life cycle.                                *)

\* C19: while the scheduler is stopped (the handle is cleared) no task it
\* created is left to execute the action: every run() task has been
\* cancelled or has ended.
C19_StoppedMeansNoTask ==
    task = 0 =>
        \A r \in 1..Len(runs) : runs[r].cancel \/ runs[r].pc = "dead"

\* C20: the first execution by the task of a start() is the one of the
\* first fire time after that start(): it does not happen more than
\* EPS_DELAY before that fire time and it is not the execution of another
\* fire time.
C20_FirstFireAtNextBoundary ==
    \A i \in 1..Len(fired) :
        (\A j \in 1..(i - 1) : fired[j].by # fired[i].by) =>
            LET boundary == get_next(runs[fired[i].by].started)
            IN  /\ fired[i].cursor = boundary
                /\ fired[i].at >= boundary - EPS_DELAY

\* C21: every execution of the action starts at most EPS_DELAY before the
\* fire time the cursor shows, the fire times executed are all different
\* and increase from one execution to the next (each is executed once), and
\* a sleeping task wakes at most MAX_DELAY later.
C21_EachFireTimeOnce ==
    /\ \A i \in 1..Len(fired) : fired[i].at >= fired[i].cursor - EPS_DELAY
    /\ \A i, j \in 1..Len(fired) : i < j => fired[i].cursor < fired[j].cursor
    /\ \A r \in 1..Len(runs) :
            runs[r].pc = "sleep" => runs[r].wake - clock <= MAX_DELAY

\* C22: cancellation is cooperative: a task that stop() has cancelled
\* while it was not executing the action never starts the action, and an
\* action that is executing ends only by returning or raising, whether
\* stop() has been called meanwhile or not.
C22_ActionRunsToCompletion ==
    [][\A r \in 1..Len(runs) :
        /\ (runs[r].cancel /\ runs[r].pc # "action") => runs'[r].pc # "action"
        /\ (runs[r].pc = "action" /\ runs'[r].pc # "action")
                => runs'[r].pc \in {"loop", "dead"}]_vars

----------------------------------------------------------------------------
(* Claims about the feed poller's life cycle and its announcements.        *)

\* a step of start() that created a task, a step of stop() that removed one
Started == \E f \in RSS_FEEDS : auto'[f].gen > auto[f].gen
Stopped == \E f \in RSS_FEEDS : updater[f].running /\ ~updater'[f].running

\* C23: whatever the order of start() and stop(), a feed has at most one
\* task that has not been cancelled, and none while it is not running;
\* start() gives every feed without a task a new one and leaves the feeds
\* that run alone; stop() cancels the task of every running feed and
\* removes the feed, and leaves the others alone; every other step touches
\* the task and the state of one feed only.
C23_OneTaskPerFeed ==
    /\ [](\A f \in RSS_FEEDS :
            /\ ~updater[f].running => (auto[f].pc = "none" \/ auto[f].cancel)
            /\ updater[f].running => (auto[f].pc # "none" /\ ~auto[f].cancel))
    /\ [][Started => \A f \in RSS_FEEDS :
            IF updater[f].running
            THEN updater'[f] = updater[f] /\ auto'[f] = auto[f]
            ELSE /\ updater'[f].running
                 /\ auto'[f].gen = auto[f].gen + 1
                 /\ auto'[f].pc = "loop" /\ ~auto'[f].cancel]_vars
    /\ [][Stopped => \A f \in RSS_FEEDS :
            /\ ~updater'[f].running
            /\ IF updater[f].running
               THEN auto'[f] = [auto[f] EXCEPT !.cancel = TRUE]
               ELSE auto'[f] = auto[f] /\ updater'[f] = updater[f]]_vars
    /\ [][(~Started /\ ~Stopped) => \A f, g \in RSS_FEEDS :
            (f # g /\ (auto'[f] # auto[f] \/ updater'[f] # updater[f]))
                => (auto'[g] = auto[g] /\ updater'[g] = updater[g])]_vars

\* the poller was started, stopped and started again before the cancelled
\* task had ended, and the new task of a feed is fetching
C23_Witness ==
    \E f \in RSS_FEEDS :
        /\ updater[f].running
        /\ auto[f].gen = 2 /\ auto[f].old = 1
        /\ auto[f].pc = "fetch"

\* the lines a call has sent, in order
LinesBy(s) == SelectSeq(wire, LAMBDA l : l.by = s)

\* the targets announce() is to send to: none without an entry, the given
\* target, or every channel
Expected(s) ==
    IF senders[s].message = <<>> THEN <<>>
    ELSE IF senders[s].target # NoTarget THEN <<senders[s].target>>
    ELSE channels

NoEntry(f) == IF Unknown(f) THEN TRUE ELSE updater[f].latest = 0

\* C24: a call of announce(feed, target) sends the entry stored when it is
\* called and nothing else: once it has returned it has sent one line to
\* the target it was given, or without a target one line to each
\* configured channel in turn; called for a feed without a stored entry, or
\* for a feed that is unknown or not running, it returns at once having
\* sent nothing and changed nothing, and so does update() for such a feed.
C24_AnnounceSends ==
    /\ [](\A s \in 1..Len(senders) : senders[s].feed # "" =>
            LET got  == LinesBy(s)
                want == Expected(s)
            IN  /\ Len(got) <= Len(want)
                /\ \A k \in 1..Len(got) :
                        got[k].target = want[k] /\ got[k].message = senders[s].message
                /\ senders[s].pc = "done" => Len(got) = Len(want))
    /\ [][(Len(senders') = Len(senders) + 1 /\ senders'[Len(senders')].feed # "") =>
            LET c == senders'[Len(senders')]
            IN  IF NoEntry(c.feed)
                THEN /\ c.message = <<>> /\ c.pc = "done"
                     /\ UNCHANGED <<wire, msglock, updater, auto>>
                ELSE c.message = entry_msg(c.feed, updater[c.feed].latest)]_vars
    /\ [][\A m \in Manuals :
            (manual[m].pc = "idle" /\ manual'[m].pc # "idle" /\ Unknown(manual'[m].feed))
                => /\ manual'[m].pc = "done"
                   /\ UNCHANGED <<updater, auto, feedlog, protoVars>>]_vars

\* the broadcast of a changed entry has gone to both channels, a reply
\* with the stored entry has gone to the nick that asked, a call for the
\* feed without an entry has returned, and so has an update() of a feed
\* that is not running
C24_Witness ==
    \E a, b, c \in 1..Len(senders) :
        /\ senders[a].target = NoTarget /\ senders[a].pc = "done"
        /\ Len(LinesBy(a)) = Len(channels) /\ Len(channels) = 2
        /\ senders[b].target = "alice" /\ senders[b].pc = "done"
        /\ Len(LinesBy(b)) = 1 /\ LinesBy(b)[1].target = "alice"
        /\ senders[c].feed = "podcast" /\ senders[c].message = <<>>
        /\ LinesBy(c) = <<>>
        /\ \E m \in Manuals : manual[m].pc = "done"

\* C30: whatever the order in which the senders and the cancellations of
\* tasks run, two lines that follow each other on the wire are at least
\* one second apart, and the lines of one call are not mixed with the
\* lines of another.
C30_OneLinePerSecond ==
    /\ \A k \in 1..(Len(wire) - 1) : wire[k + 1].at - wire[k].at >= 1
    /\ \A i, j, k \in 1..Len(wire) :
            (i < j /\ j < k /\ wire[i].by = wire[k].by) => wire[j].by = wire[i].by

\* C29: a command with the span of 15 seconds called at the clock readings
\* 0, 10 and 16 and at no other time runs its body at 0, is suppressed at
\* 10 and runs its body at 16: two executions and one suppression.
C29_Scenario ==
    \A h \in Handlers :
        (/\ spam_span[h] = DefaultSpan
         /\ Cardinality(CallsOf(h)) = 3
         /\ {events[e].at : e \in CallsOf(h)} = ScenarioClock)
            => /\ \A e \in CallsOf(h) :
                    /\ events[e].at = 0 => Ran(e)
                    /\ events[e].at = 10 => events[e].outcome = "suppressed"
                    /\ events[e].at = 16 => Ran(e)
               /\ Cardinality({e \in CallsOf(h) : Ran(e)}) = 2
               /\ Cardinality({e \in CallsOf(h) : events[e].outcome = "suppressed"}) = 1

\* what every text resolves to with the table registered once
RegisteredOnce == [cmd \in Commands |-> get_route(setup_routing(<<>>, 1), cmd)]

\* C27: with the route table registered a second time by a second
\* CommandHandler, every text resolves to the same bound handler (the
\* first instance's method) and the same captured arguments as with the
\* table registered once.
C27_TwiceResolvesTheSame ==
    /\ \A cmd \in Commands : get_route(routes, cmd) = RegisteredOnce[cmd]
    /\ \A e \in 1..Len(events) : Called(e) => events[e].callback.inst = 1

C27_Witness ==
    /\ handlers = 2
    /\ Len(routes) = 2 * Len(setup_routing(<<>>, 1))
    /\ get_route(routes, SubSeq(M_latest_video, 2, Len(M_latest_video)))
            = [callback |-> [inst |-> 1, name |-> "latest"], kwargs |-> [feed |-> W_video]]
    /\ \E e \in 1..Len(events) : Called(e)

\* C28: the table holds one route for every key of CMD_REGEX that has a
\* handler, in the order of the keys, and stays as it is: neither a line
\* that is handled nor another CommandHandler adds, removes or moves a
\* route.
C28_TableImmutable ==
    /\ Len(routes) = Cardinality({k \in 1..Len(CMD_KEYS) : CMD_KEYS[k] \in Handlers})
    /\ \A k \in 1..Len(routes) : routes[k].regex = CMD_KEYS[k]

----------------------------------------------------------------------------
(* Claims about the pool and the moderator cache.                          *)

\* C25: whatever the order in which the callers of get_pool() run, a pool
\* is created at most once: a caller is in create_pool only while it holds
\* the lock and no pool is stored, so no two callers are there together and
\* nobody is once a pool exists; every caller that has returned holds the
\* one pool.
C25_PoolCreatedOnce ==
    /\ created <= 1
    /\ Cardinality({g \in 1..Len(getters) : getters[g].pc = "create"}) <= 1
    /\ \A g \in 1..Len(getters) :
        /\ getters[g].pc = "create" => (pool_lock = g /\ pool = 0)
        /\ getters[g].pc = "done" => (getters[g].got = pool /\ pool # 0)

\* two callers hold the pool, one of them having waited for the lock, and
\* a third has been told that the creation failed
C25_Witness ==
    \E a, b, c \in 1..Len(getters) :
        /\ a # b
        /\ getters[a].pc = "done" /\ getters[b].pc = "done"
        /\ getters[a].got = 1 /\ getters[b].got = 1
        /\ getters[b].waited
        /\ getters[c].pc = "raised"
        /\ created = 1

SameKey(x, y) == x.stream = y.stream /\ x.user = y.user

\* C26: the cache only grows; a call for a stream and a user made after a
\* call for the same two has returned true returns true at once, without
\* asking the chat service, whatever the service lists by then; and only
\* keys the service has answered true for are in the cache, a call that
\* returns false leaving the cache as it is.
C26_CacheAdditive ==
    /\ [][/\ Len(cache') >= Len(cache)
          /\ SubSeq(cache', 1, Len(cache)) = cache]_vars
    /\ [][Len(checks') > Len(checks) =>
            LET c == checks'[Len(checks')]
            IN  (\E a \in 1..Len(checks) :
                    SameKey(checks[a], c) /\ checks[a].pc = "done" /\ checks[a].result)
                    => (c.pc = "done" /\ c.result /\ ~c.queried)]_vars
    /\ [](\A k \in 1..Len(cache) : \E a \in 1..Len(checks) :
            /\ CacheKey(checks[a].stream, checks[a].user) = cache[k]
            /\ checks[a].pc = "done" /\ checks[a].result /\ checks[a].queried)
    /\ [][\A c \in 1..Len(checks) :
            (checks[c].pc = "query" /\ checks'[c].pc = "done" /\ ~checks'[c].result)
                => cache' = cache]_vars

\* a user found to be a moderator is no longer listed by the service, and
\* a later call has returned true without asking; a call for the other
\* stream has returned false
C26_Witness ==
    \E a, b, c \in 1..Len(checks) :
        /\ a < b /\ SameKey(checks[a], checks[b])
        /\ checks[a].pc = "done" /\ checks[a].result /\ checks[a].queried
        /\ checks[b].pc = "done" /\ checks[b].result /\ ~checks[b].queried
        /\ checks[a].user \notin mods[checks[a].stream]
        /\ checks[c].pc = "done" /\ ~checks[c].result

----------------------------------------------------------------------------
(* Claims about failing fetches, the shutdown and the pace of the poller.  *)

\* C31: when the fetch of an update() fails, in the auto_update task or in
\* a latest command, the feed keeps its stored entry and its last-poll
\* time, nothing is stored or announced, and the feed's lock is free again
\* for the next update(); a task that has failed holds no lock.
C31_FailedFetchLeavesFeed ==
    /\ [][\A f \in RSS_FEEDS :
            (auto[f].pc = "fetch" /\ auto'[f].pc = "dead")
                => /\ updater' = [updater EXCEPT ![f].lock = 0]
                   /\ feedlog' = feedlog]_vars
    /\ [][\A m \in Manuals :
            (manual[m].pc = "fetch" /\ manual'[m].pc = "raised")
                => /\ updater' = [updater EXCEPT ![manual[m].feed].lock = 0]
                   /\ feedlog' = feedlog]_vars
    /\ [](\A f \in RSS_FEEDS :
            /\ auto[f].pc = "dead" => updater[f].lock # AutoId
            /\ \A m \in Manuals :
                    (manual[m].pc = "raised" /\ manual[m].feed = f) => updater[f].lock # m)

\* the automatic update of a feed has failed in its first fetch, and a
\* latest command has since taken the feed's lock and fetches
C31_Witness ==
    \E f \in RSS_FEEDS, m \in Manuals :
        /\ auto[f].pc = "dead"
        /\ feedlog[f].stores = 0
        /\ manual[m].feed = f /\ manual[m].pc = "fetch"
        /\ updater[f].lock = m

\* C32: whenever stop() runs while a latest command's update() waits for
\* its fetch, the update() goes on without failing once the entry has
\* arrived: it ends normally or as a no-op, and it stores nothing for a
\* feed that stop() has removed.
C32_StopDuringUpdate ==
    [][\A m \in Manuals :
        manual[m].pc = "store" =>
            /\ manual'[m].pc # "raised"
            /\ ~updater[manual[m].feed].running =>
                    /\ updater'[manual[m].feed].latest = updater[manual[m].feed].latest
                    /\ updater'[manual[m].feed].last = updater[manual[m].feed].last]_vars

\* C33: the auto_update task of a feed begins a fetch only when at least
\* the delay has passed since the feed's last completed update, whoever
\* made it.
C33_AutoFetchAfterDelay ==
    [][\A f \in RSS_FEEDS :
        (auto[f].pc # "fetch" /\ auto'[f].pc = "fetch" /\ feedlog[f].stores > 0)
            => now - updater[f].last >= Delay]_vars

\* The poller while it is started and not stopped and every request and
\* every send returns: the steps of the tasks and of the clock, which the
\* event loop does take when they are possible, and those of the outside
\* (a new entry, a latest command), which may or may not come.
Running ==
    \/ FeedTick
    \/ \E f \in RSS_FEEDS : AutoLoop(f)
    \/ \E f \in RSS_FEEDS : AutoWake(f)
    \/ \E f \in RSS_FEEDS : AutoLocked(f)
    \/ \E f \in RSS_FEEDS : AutoFetched(f)
    \/ \E f \in RSS_FEEDS : AutoStore(f)
    \/ \E f \in RSS_FEEDS : AutoAnnounced(f)
    \/ \E m \in Manuals : ManualLocked(m)
    \/ \E m \in Manuals : ManualFetched(m)
    \/ \E m \in Manuals : ManualStore(m)
    \/ \E m \in Manuals : ManualAnnounced(m)
    \/ \E m \in Manuals : ManualReplied(m)

Proceeding == Running /\ UNCHANGED <<cmdRest, schedVars, libVars>>

NextFeedFair ==
    \/ (\E f \in RSS_FEEDS : Publish(f)) /\ UNCHANGED <<cmdRest, schedVars, libVars>>
    \/ (\E m \in Manuals, f \in RSS_FEEDS : ManualUpdate(m, f))
            /\ UNCHANGED <<cmdRest, schedVars, libVars>>
    \/ FeedTick /\ UNCHANGED <<cmdRest, schedVars, libVars>>
    \/ (\E f \in RSS_FEEDS : AutoLoop(f)) /\ UNCHANGED <<cmdRest, schedVars, libVars>>
    \/ (\E f \in RSS_FEEDS : AutoWake(f)) /\ UNCHANGED <<cmdRest, schedVars, libVars>>
    \/ (\E f \in RSS_FEEDS : AutoLocked(f)) /\ UNCHANGED <<cmdRest, schedVars, libVars>>
    \/ (\E f \in RSS_FEEDS : AutoFetched(f)) /\ UNCHANGED <<cmdRest, schedVars, libVars>>
    \/ (\E f \in RSS_FEEDS : AutoStore(f)) /\ UNCHANGED <<cmdRest, schedVars, libVars>>
    \/ (\E f \in RSS_FEEDS : AutoAnnounced(f)) /\ UNCHANGED <<cmdRest, schedVars, libVars>>
    \/ (\E m \in Manuals : ManualLocked(m)) /\ UNCHANGED <<cmdRest, schedVars, libVars>>
    \/ (\E m \in Manuals : ManualFetched(m)) /\ UNCHANGED <<cmdRest, schedVars, libVars>>
    \/ (\E m \in Manuals : ManualStore(m)) /\ UNCHANGED <<cmdRest, schedVars, libVars>>
    \/ (\E m \in Manuals : ManualAnnounced(m)) /\ UNCHANGED <<cmdRest, schedVars, libVars>>
    \/ (\E m \in Manuals : ManualReplied(m)) /\ UNCHANGED <<cmdRest, schedVars, libVars>>

SpecFeedFair == InitFeedSpec /\ [][NextFeedFair]_vars /\ WF_vars(Proceeding)

\* the last clock reading of the model
Horizon == Delay + MaxFeedTicks

C35_NoFireTimeSkipped ==
    [][(task # 0 /\ cron' # cron)
            => \E i \in 1..Len(fired) : fired[i].cursor = cron]_vars

----------------------------------------------------------------------------
(* The two locks together: update() calls announce() inside the feed's     *)
(* "with" block, and announce() and privmsg() take msglock.                *)

\* the task of the m-th latest command, as the owner of client calls
ManualTask(m) == <<"cmd1", "cmd2", "cmd3">>[m]

\* update() of task who calls announce(feed): the feed runs and has an entry
update_announce(f, entry, who) ==
    /\ Len(senders) < MaxSenders
    /\ client_call(NewSender(announce_op(NoTarget), f, NoTarget, entry_msg(f, entry), who))
    /\ UNCHANGED channels

\* handle_command_latest calls announce(feed, target=target)
latest_reply(m) ==
    IF manual'[m].pc = "reply"
    THEN /\ Len(senders) < MaxSenders
         /\ client_call(NewSender(announce_op("alice"), manual[m].feed, "alice",
                    entry_msg(manual[m].feed, updater'[manual[m].feed].latest),
                    ManualTask(m)))
         /\ UNCHANGED channels
    ELSE UNCHANGED protoVars

LockedAutoStore(f) ==
    /\ AutoStore(f)
    /\ IF Announces(updater[f].latest, auto[f].new)
       THEN update_announce(f, auto[f].new, f)
       ELSE UNCHANGED protoVars

LockedManualStore(m) ==
    /\ ManualStore(m)
    /\ IF manual'[m].pc = "announce"
       THEN update_announce(manual[m].feed, manual[m].new, ManualTask(m))
       ELSE latest_reply(m)

LockedManualAnnounced(m) ==
    /\ Active(ManualTask(m)) = {}
    /\ ManualAnnounced(m)
    /\ latest_reply(m)

LockedManualReplied(m) ==
    /\ Active(ManualTask(m)) = {}
    /\ ManualReplied(m)
    /\ UNCHANGED protoVars

\* The poller after the first automatic update of the one feed whose source
\* answers; the other feed's task has ended with its first request.
InitLocks ==
    /\ InitCmdIdle
    /\ now = Delay
    /\ InitSchedIdle
    /\ InitConnIdle
    /\ InitPoolIdle
    /\ InitModIdle
    /\ channels \in ChannelConfigs
    /\ msglock = 0
    /\ senders = <<>>
    /\ wire = <<>>
    /\ remote = [f \in RSS_FEEDS |-> IF f = "video" THEN 1 ELSE 0]
    /\ published = [f \in RSS_FEEDS |-> 0]
    /\ updater = [f \in RSS_FEEDS |->
            [running |-> TRUE, lock |-> 0, last |-> 0,
             latest |-> IF f = "video" THEN 1 ELSE 0]]
    /\ auto = [f \in RSS_FEEDS |->
            [NewTask(1, 0) EXCEPT !.pc = IF f = "video" THEN "loop" ELSE "dead"]]
    /\ manual = [m \in Manuals |-> [pc |-> "idle", feed |-> "video", new |-> 0]]
    /\ feedlog = [f \in RSS_FEEDS |->
            IF f = "video"
            THEN [stores |-> 1, announces |-> 0, by |-> AutoId, old |-> 0,
                  new |-> 1, at |-> 0, announced |-> 0]
            ELSE [stores |-> 0, announces |-> 0, by |-> 0, old |-> 0,
                  new |-> 0, at |-> 0, announced |-> 0]]

\* a second passes
LocksTick ==
    /\ now < Delay + MaxProtoTicks
    /\ now' = now + 1
    /\ UNCHANGED <<protoVars, feedVars>>

NextLocks ==
    \/ (\E f \in RSS_FEEDS : Publish(f)) /\ UNCHANGED <<protoRest, protoVars>>
    \/ LocksTick /\ UNCHANGED protoRest
    \/ (\E f \in RSS_FEEDS : AutoLoop(f)) /\ UNCHANGED <<protoRest, protoVars>>
    \/ (\E f \in RSS_FEEDS : AutoWake(f)) /\ UNCHANGED <<protoRest, protoVars>>
    \/ (\E f \in RSS_FEEDS : AutoLocked(f)) /\ UNCHANGED <<protoRest, protoVars>>
    \/ (\E f \in RSS_FEEDS : AutoFetched(f)) /\ UNCHANGED <<protoRest, protoVars>>
    \/ (\E f \in RSS_FEEDS : AutoFetchFailed(f)) /\ UNCHANGED <<protoRest, protoVars>>
    \/ (\E f \in RSS_FEEDS : LockedAutoStore(f)) /\ UNCHANGED protoRest
    \/ (\E f \in RSS_FEEDS : AnnounceReturned(f)) /\ UNCHANGED protoRest
    \/ (\E f \in RSS_FEEDS : AnnounceCancelled(f)) /\ UNCHANGED protoRest
    \/ (\E m \in Manuals, f \in RSS_FEEDS : ManualUpdate(m, f))
            /\ UNCHANGED <<protoRest, protoVars>>
    \/ (\E m \in Manuals : ManualLocked(m)) /\ UNCHANGED <<protoRest, protoVars>>
    \/ (\E m \in Manuals : ManualFetched(m)) /\ UNCHANGED <<protoRest, protoVars>>
    \/ (\E m \in Manuals : ManualFetchFailed(m)) /\ UNCHANGED <<protoRest, protoVars>>
    \/ (\E m \in Manuals : LockedManualStore(m)) /\ UNCHANGED protoRest
    \/ (\E m \in Manuals : LockedManualAnnounced(m)) /\ UNCHANGED protoRest
    \/ (\E m \in Manuals : LockedManualReplied(m)) /\ UNCHANGED protoRest
    \/ (\E s \in 1..MaxSenders : MsgLocked(s)) /\ UNCHANGED protoRest
    \/ (\E s \in 1..MaxSenders : MsgSlept(s)) /\ UNCHANGED protoRest
    \/ FeedStop /\ UNCHANGED <<protoRest, protoVars>>

SpecLocks == InitLocks /\ [][NextLocks]_vars

\* the tasks inside the "with" block of update() for feed f
InBlock(f) ==
    (IF auto[f].pc \in {"fetch", "store", "announce"} THEN {AutoId} ELSE {})
        \cup {m \in Manuals : manual[m].feed = f /\ manual[m].pc \in {"fetch", "store", "announce"}}

\* the client calls of the task that holds the lock of feed f
CallsOfHolder(f) ==
    IF updater[f].lock = 0 THEN {}
    ELSE IF updater[f].lock = AutoId THEN Active(f)
    ELSE Active(ManualTask(updater[f].lock))

\* the task takes the lock of feed f in this step
Takes(f) == updater'[f].lock # 0 /\ updater'[f].lock # updater[f].lock

\* C36: a task takes a feed's lock only when it neither holds nor waits for
\* the message lock, and update()'s announcement asks for the message lock
\* inside the feed's block; a feed's lock is held exactly by the one task
\* inside the block and the message lock by a call inside its block, so
\* that a task that failed, was cancelled or returned holds no lock; and
\* the holder of the message lock waits for its sleep only, never for a
\* lock, so that no circle of waiting tasks arises.
C36_LockOrder ==
    /\ [][\A f \in RSS_FEEDS :
            Takes(f) => (IF updater'[f].lock = AutoId THEN Active(f)
                         ELSE Active(ManualTask(updater'[f].lock))) = {}]_vars
    /\ [](\A s \in 1..Len(senders) :
            (senders[s].pc \in {"lock", "sleep"} /\ senders[s].op = "announce")
                => s \in CallsOfHolder(senders[s].feed))
    /\ [](\A f \in RSS_FEEDS :
            InBlock(f) = IF updater[f].lock = 0 THEN {} ELSE {updater[f].lock})
    /\ [](msglock # 0 => /\ msglock \in 1..Len(senders)
                         /\ senders[msglock].pc = "sleep")
    /\ [](\A s \in 1..Len(senders) : senders[s].pc = "sleep" => msglock = s)

\* the automatic update holds the feed's lock and the message lock while a
\* latest command waits for the feed's lock
C36_Witness ==
    \E f \in RSS_FEEDS, m \in Manuals :
        /\ updater[f].lock = AutoId
        /\ auto[f].pc = "announce"
        /\ msglock \in Active(f)
        /\ manual[m].feed = f /\ manual[m].pc = "lock"

\* the lines sent by the client calls of task who
LinesOf(who) == {i \in 1..Len(wire) : senders[wire[i].by].task = who}

\* C37: a latest command for an RSS feed whose poller runs and whose request
\* succeeds has, when it ends, sent exactly one line, to its reply target,
\* and none to any other target, whether its update found a new entry or
\* not.
C37_LatestSendsOneLine ==
    \A m \in Manuals :
        (manual[m].pc = "done" /\ updater[manual[m].feed].running)
            => /\ Cardinality(LinesOf(ManualTask(m))) = 1
               /\ \A i \in LinesOf(ManualTask(m)) : wire[i].target = "alice"

\* the calls the song command has made of the rdio and last.fm commands
Delegated == {c \in 1..Len(events) : events[c].parent # 0}

\* C38: when a running song command calls the rdio or last.fm command, the
\* gate of that command decides: more than its span after its last
\* invocation the call runs and the command's last invocation becomes the
\* present time, else the call is suppressed and no last invocation changes;
\* and neither a suppressed call nor the song command that made it ever
\* sends a line.
C38_SongDelegatesThroughGate ==
    /\ [][\A e \in 1..Len(events) :
            (events[e].outcome = "running" /\ events'[e].outcome = "delegated")
                => LET c == Len(events')
                       h == events'[c].callback.name
                   IN  /\ Len(events') = Len(events) + 1
                       /\ events[e].callback.name = "song"
                       /\ events'[c].parent = e
                       /\ h \in {"rdio", "lastfm"}
                       /\ IF now - spam_last[h] > spam_span[h]
                          THEN /\ events'[c].outcome = "running"
                               /\ spam_last' = [spam_last EXCEPT ![h] = now]
                          ELSE /\ events'[c].outcome = "suppressed"
                               /\ spam_last' = spam_last]_vars
    /\ [](\A c \in Delegated :
            events[c].outcome = "suppressed"
                => \A i \in 1..Len(outbox) : outbox[i].ev \notin {c, events[c].parent})

\* a song command whose call of the rdio command was suppressed, the rdio
\* command having run a second before
C38_Witness ==
    \E c \in Delegated, r \in 1..Len(events) :
        /\ events[c].outcome = "suppressed"
        /\ events[c].callback.name = "rdio"
        /\ events[r].parent = 0 /\ events[r].callback.name = "rdio"
        /\ events[r].outcome = "replied"
        /\ events[r].at < events[c].at

----------------------------------------------------------------------------
(* protocol.py: the connection.  The bottom client runs the handlers of an *)
(* event as tasks of the event loop, so reconnect() runs some time after   *)
(* the CLIENT_DISCONNECT it answers; shutdown() is the SIGTERM callback of *)
(* the same loop.                                                          *)

MaxDisconnects == 4   \* CLIENT_DISCONNECT events in a run
MaxQuits == 3         \* shutdown() calls in a run

\* a reconnect() that connects again whatever the flag says
reconnect_always(flag) == "connect"

\* reconnect(), lines 102-107: "if self.restart:"
reconnect_does(flag) == IF flag THEN "connect" ELSE "stop"

\* Protocol.start(): create_task(self.irc.connect())
ProtocolStart ==
    /\ loop = "running"
    /\ irc = "new"
    /\ irc' = "connecting"
    /\ UNCHANGED <<restart, disconnects, loop, quits>>

\* irc.connect() returns: the connection is up
Connected ==
    /\ loop = "running"
    /\ irc = "connecting"
    /\ irc' = "up"
    /\ UNCHANGED <<restart, disconnects, loop, quits>>

\* irc.connect() raises: the task that awaited it ends, no event is raised
ConnectFailed ==
    /\ loop = "running"
    /\ irc = "connecting"
    /\ irc' = "down"
    /\ UNCHANGED <<restart, disconnects, loop, quits>>

\* Protocol.register, the handler of CLIENT_CONNECT: NICK and USER are sent
register ==
    /\ loop = "running"
    /\ irc = "up"
    /\ irc' = "registered"
    /\ UNCHANGED <<restart, disconnects, loop, quits>>

\* Protocol.join, the handler of RPL_WELCOME: JOIN is sent for every channel
join ==
    /\ loop = "running"
    /\ irc = "registered"
    /\ irc' = "joined"
    /\ UNCHANGED <<restart, disconnects, loop, quits>>

\* the states of a connection that is established
Established == {"up", "registered", "joined"}

\* the connection is lost or closed by the server: CLIENT_DISCONNECT, for
\* which the client creates the reconnect() task; flag is self.restart at
\* the moment of the event
ClientDisconnect ==
    /\ loop = "running"
    /\ irc \in Established
    /\ Len(disconnects) < MaxDisconnects
    /\ irc' = "down"
    /\ disconnects' = Append(disconnects, [flag |-> restart, did |-> "pending"])
    /\ UNCHANGED <<restart, loop, quits>>

\* Protocol.reconnect, the task of the d-th event, up to "await
\* self.irc.connect()" or through "self.loop.stop()"
reconnect(d) ==
    /\ loop = "running"
    /\ d \in 1..Len(disconnects)
    /\ disconnects[d].did = "pending"
    /\ disconnects' = [disconnects EXCEPT ![d].did = reconnect_does(restart)]
    /\ IF reconnect_does(restart) = "connect"
       THEN /\ irc' = "connecting"
            /\ UNCHANGED loop
       ELSE /\ loop' = "stopped"
            /\ UNCHANGED irc
    /\ UNCHANGED <<restart, quits>>

\* Protocol.shutdown
shutdown ==
    /\ loop = "running"
    /\ quits < MaxQuits
    /\ restart' = FALSE
    /\ quits' = quits + 1
    /\ UNCHANGED <<irc, disconnects, loop>>

\* Protocol.__init__: the class-level restart = True, no connection yet
InitConn ==
    /\ InitCmdIdle
    /\ now = 0
    /\ InitFeedIdle
    /\ InitSchedIdle
    /\ InitProtoIdle
    /\ InitPoolIdle
    /\ InitModIdle
    /\ restart = TRUE
    /\ irc = "new"
    /\ disconnects = <<>>
    /\ loop = "running"
    /\ quits = 0

connRest == <<cmdVars, feedVars, schedVars, protoVars, poolVars, modVars>>

\* The connection: it comes up, is lost and is made again while SIGTERM may
\* arrive at any moment.
NextConn ==
    \/ ProtocolStart /\ UNCHANGED connRest
    \/ Connected /\ UNCHANGED connRest
    \/ ConnectFailed /\ UNCHANGED connRest
    \/ register /\ UNCHANGED connRest
    \/ join /\ UNCHANGED connRest
    \/ ClientDisconnect /\ UNCHANGED connRest
    \/ (\E d \in 1..MaxDisconnects : reconnect(d)) /\ UNCHANGED connRest
    \/ shutdown /\ UNCHANGED connRest

SpecConn == InitConn /\ [][NextConn]_vars

\* reconnect() runs for the d-th event in this step
Handles(d) ==
    /\ d \in 1..Len(disconnects)
    /\ disconnects[d].did = "pending"
    /\ disconnects'[d].did # "pending"

\* C39 as stated: every disconnect event that occurs before shutdown() is
\* called is answered by a reconnect attempt.
C39_AsStated ==
    \A d \in 1..Len(disconnects) :
        (disconnects[d].flag /\ disconnects[d].did # "pending")
            => disconnects[d].did = "connect"

\* C39: every disconnect event whose reconnect() runs before shutdown() is
\* called is answered by a reconnect attempt; once shutdown() has been
\* called the restart flag stays false, and the reconnect() that runs next,
\* for a disconnect before or after the call, stops the event loop and makes
\* no connection, after which nothing reconnects.
C39_ReconnectUntilShutdown ==
    /\ [][\A d \in 1..MaxDisconnects :
            Handles(d) =>
                IF restart
                THEN /\ disconnects'[d].did = "connect"
                     /\ irc' = "connecting"
                     /\ loop' = "running"
                ELSE /\ disconnects'[d].did = "stop"
                     /\ irc' = irc
                     /\ loop' = "stopped"]_vars
    /\ [](restart = (quits = 0))
    /\ [][~restart => ~restart']_vars
    /\ [][loop = "stopped" => UNCHANGED connVars]_vars
    /\ [](loop = "stopped" => irc = "down")

\* a disconnect before shutdown() was answered by a reconnect, a later one
\* that also came before shutdown() by the stop of the loop
C39_Witness ==
    \E d, e \in 1..Len(disconnects) :
        /\ d < e
        /\ disconnects[d].flag /\ disconnects[d].did = "connect"
        /\ disconnects[e].flag /\ disconnects[e].did = "stop"
        /\ loop = "stopped"

====
